---------------------------- MODULE Spec2Model ----------------------------
(***************************************************************************)
(* Verification model of pypdepsim's similarity / co-occurrence engine.     *)
(*                                                                         *)
(* The module holds one group of variables per component and one           *)
(* specification per component:                                            *)
(*   SpecLimiter  createLimiter               (src/lib/similar.ts 50-82)   *)
(*   SpecHeap     heapPushBounded & helpers   (src/lib/similar.ts 343-380) *)
(*   SpecRate     rateLimit, fetchJsonWithCache (src/README.md 223-314)     *)
(*   SpecShard    shard loaders of lib/cache.ts (src/README.md 504-707)     *)
(*   SpecSimilar  computeSimilarOnDemand      (src/lib/similar.ts 119-615) *)
(*   SpecRetry    the retrying fetch helpers  (src/README.md 247-314,      *)
(*                                             src/lib/pypi-stats.ts 43-123) *)
(*   SpecRanked   computeCooccurrence         (src/lib/similar.ts 617-947) *)
(*   SpecJaccard  jaccardSimilarityOptimized (src/lib/pypi-stats.ts        *)
(*                165-188), canMeetThreshold (src/lib/similar.ts 84-103)   *)
(*   SpecThreshold  the co-occurrence thresholds                           *)
(*                                            (src/lib/config.ts 209-229)  *)
(*   SpecUpdate   the weekly update (src/scripts/weekly-data-update.ts)    *)
(*   SpecBitset   jaccardBitset, intersectCount (src/lib/jaccardBitset.ts) *)
(*   SpecNormalize  normalizePackageName      (src/lib/similar.ts 24-27)   *)
(*   SpecLimiterFair  SpecLimiter where every started task settles         *)
(*   SpecPeer     computeSimilarOnDemand with restrictToPeerGroup          *)
(*                                            (src/lib/similar.ts 244-256) *)
(* A specification moves only its own group; the other groups stay at      *)
(* their initial value.                                                    *)
(***************************************************************************)
EXTENDS Integers, Sequences, FiniteSets, TLC

VARIABLES
    \* ---- createLimiter (similar.ts 50-82)
    concurrency,    \* the argument of createLimiter
    running,        \* let running = 0
    queue,          \* const queue: Array<() => void>
    taskState,      \* task -> "new" | "queued" | "running" | "resolved" | "rejected"
    startOrder,     \* the tasks in the order run() was entered
    queuedOrder,    \* the tasks in the order queue.push(run) was called
    \* ---- bounded top-K selector (similar.ts 343-380)
    limit,          \* the limit argument of computeSimilarOnDemand
    heap,           \* const heap: SimilarItem[]
    pushed,         \* the items handed to heapPushBounded so far, in order
    \* ---- rateLimit / fetchJsonWithCache (README.md 196-314, lib/pypi.ts)
    now,            \* Date.now(), in ms
    lastRequestTime,\* const lastRequestTime = new Map<string, number>()
    lru,            \* keys held by the shared LRU cache
    fetcher,        \* caller -> [pc, key, wake, attempt, requests]
    dispatched,     \* domain -> the times of the last two requests sent, in order
    \* ---- reverse-dependency shards (README.md 403-707, lib/cache.ts)
    dirFiles,       \* the reverseDeps-*.json files of the data directory
    legacyFiles,    \* which of reverseDeps.csv.json / reverseDeps.1000.json exist
    prefixCacheState,   \* prefix -> "absent" | "data" | "empty"
    prefixLoadingState, \* prefix -> "absent" | "pending" | "settled"
    reverseDepsCache,   \* <<>> for null, else <<the files the data came from>>
    allPrefixesLoaded,  \* let allPrefixesLoaded = false
    readCount,      \* file -> number of fs.readFile calls made for it
    reads,          \* <<loader, file>>: reads of loadReverseDepsCacheAsync in flight
    loader,         \* loader -> [pc, prefix, got, result]
    loads,          \* calls made so far
    caches,         \* loader -> what its loadReverseDepsCacheAsync() calls returned
    \* ---- computeSimilarOnDemand (similar.ts 119-615)
    pkg,            \* the pkg argument
    maxLiveCandidates,  \* options.maxLiveCandidates, 0 when the option is absent
    indexPresent,   \* data/pkg-id-map.json, meta.json and dependents/ exist
    pc,             \* where the call waits: "idle" | "fwdMeta" | "fwdCheck" |
                    \* "scan" | "idMap" | "meta" | "shard" | "eval" | "done"
    callOutcome,    \* "none" | "returned" | "threw"
    results,        \* the array the call returned
    path,           \* the return statement the array came from
    timedOut,       \* the stages a withTimeout timer fired in
    base,           \* const base = await getReverseDeps(pkg)
    pkgDeps,        \* const pkgDeps = pickLatestDependencies(meta)
    similar,        \* const similar = new Map(), in insertion order
    candidates,     \* const candidates = new Set(), in insertion order
    inFlight,       \* the fetchPackageMeta calls of the stage not yet ended
    queued,         \* the queue of the stage's limiter
    scanNext,       \* the i of the scan's batch loop
    ev,             \* the state of the candidate evaluation
    evalOutcome,    \* candidate -> how its shard read ended
    \* ---- fetchDownloadStats (pypi-stats.ts 43-123)
    statsFetch,     \* [pc, attempt, last, result] of one call
    \* ---- computeCooccurrence (similar.ts 617-947)
    cooccur,        \* the Map cooccur in insertion order: [name, count]
    successfulFetches,  \* the counter of similar.ts 651
    fetchedDependents,  \* the dependents whose fetchPackageMeta call succeeded
    \* ---- jaccardSimilarity and canMeetThreshold on their own
    setA, setB,     \* the two Set<string> arguments, in insertion order
    jpc,            \* "input", "scored", "filtered"
    jResult, jSwapped,  \* jaccardSimilarity(a, b) and jaccardSimilarity(b, a)
    jThreshold,     \* the threshold handed to canMeetThreshold, in millionths
    canMeet,        \* what canMeetThreshold(a.size, b.size, minJaccard) returned
    \* ---- the threshold selection of computeCooccurrenceFromReverseDeps
    thBase,         \* base.size
    thSampled,      \* baseDependents.length
    thFewer, thMore,    \* two values of successfulFetches, thFewer < thMore
    thpc,           \* "input", "first", "second"
    thresholdFewer, thresholdMore,  \* the threshold chosen for each
    \* ---- the weekly update (scripts/weekly-data-update.ts)
    lockFile,       \* data/.weekly-update.lock: [present, content, fds]
    updater,        \* process -> [pc, stamp, idx]
    wallClock,      \* Date.now()
    prodFiles,      \* file -> content of data/<file>
    tempFiles,      \* file -> content of data/.temp-<file>
    backupFiles,    \* file -> content of data/<file>.backup
    prodBefore,     \* the production files that existed before the update
    \* ---- jaccardBitset and intersectCount (lib/jaccardBitset.ts)
    bitA, bitB,     \* the Uint32Array arguments a and b
    bpc,            \* "input", "scored", "counted"
    bitsetScore,    \* what jaccardBitset(a, b) returned: inter / unionSize
    bitsetCount,    \* what intersectCount(a, b) returned
    \* ---- normalizePackageName (lib/similar.ts 24-27)
    rawName,        \* the argument name
    npc,            \* "input", "once", "twice"
    normOnce,       \* normalizePackageName(name)
    normTwice,      \* normalizePackageName(normalizePackageName(name))
    restrictToPeerGroup    \* options.restrictToPeerGroup === true (similar.ts 245)

limVars  == <<concurrency, running, queue, taskState, startOrder, queuedOrder>>
heapVars == <<limit, heap, pushed>>
rateVars == <<now, lastRequestTime, lru, fetcher, dispatched>>
shardVars == <<dirFiles, legacyFiles, prefixCacheState, prefixLoadingState,
               reverseDepsCache, allPrefixesLoaded, readCount, reads, loader, loads, caches>>
simVars  == <<pkg, maxLiveCandidates, indexPresent, pc, callOutcome, results, path, timedOut, base,
              pkgDeps, similar, candidates, inFlight, queued, scanNext, ev,
              evalOutcome>>
statsVars == <<statsFetch>>
coVars   == <<cooccur, successfulFetches, fetchedDependents>>
jacVars  == <<setA, setB, jpc, jResult, jSwapped, jThreshold, canMeet>>
thVars   == <<thBase, thSampled, thFewer, thMore, thpc, thresholdFewer, thresholdMore>>
updVars  == <<lockFile, updater, wallClock, prodFiles, tempFiles, backupFiles, prodBefore>>
bitVars  == <<bitA, bitB, bpc, bitsetScore, bitsetCount>>
normVars == <<rawName, npc, normOnce, normTwice>>
optVars  == <<restrictToPeerGroup>>
vars     == <<limVars, heapVars, rateVars, shardVars, simVars, statsVars, coVars, jacVars, thVars,
             updVars, bitVars, normVars, optVars>>

\* what each component leaves alone
notLim   == <<heapVars, rateVars, shardVars, simVars, statsVars, coVars, jacVars, thVars, updVars,
             bitVars, normVars, optVars>>
notHeap  == <<limVars, rateVars, shardVars, simVars, statsVars, coVars, jacVars, thVars, updVars,
             bitVars, normVars, optVars>>
notRate  == <<limVars, heapVars, shardVars, simVars, statsVars, coVars, jacVars, thVars, updVars,
             bitVars, normVars, optVars>>
notShard == <<limVars, heapVars, rateVars, simVars, statsVars, coVars, jacVars, thVars, updVars,
             bitVars, normVars, optVars>>
notSim   == <<limVars, heapVars, rateVars, shardVars, statsVars, coVars, jacVars, thVars, updVars,
             bitVars, normVars, optVars>>
notStats == <<limVars, heapVars, rateVars, shardVars, simVars, coVars, jacVars, thVars, updVars,
             bitVars, normVars, optVars>>
notCo    == <<limVars, heapVars, rateVars, shardVars, statsVars, jacVars, thVars, updVars,
             bitVars, normVars, optVars>>
notJac   == <<limVars, heapVars, rateVars, shardVars, simVars, statsVars, coVars, thVars, updVars,
             bitVars, normVars, optVars>>
notTh    == <<limVars, heapVars, rateVars, shardVars, simVars, statsVars, coVars, jacVars, updVars,
             bitVars, normVars, optVars>>
notUpd   == <<limVars, heapVars, rateVars, shardVars, simVars, statsVars, coVars, jacVars, thVars,
             bitVars, normVars, optVars>>
notBit   == <<limVars, heapVars, rateVars, shardVars, simVars, statsVars, coVars, jacVars, thVars,
             updVars, normVars, optVars>>
notNorm  == <<limVars, heapVars, rateVars, shardVars, simVars, statsVars, coVars, jacVars, thVars, updVars, bitVars, optVars>>

(***************************************************************************)
(* Bounds of the model.                                                    *)
(***************************************************************************)
MaxConcurrency == 2     \* createLimiter(N), N in 1..MaxConcurrency
MaxTasks       == 4     \* tasks submitted to one limiter
MaxLimit       == 3     \* limit (K) in 0..MaxLimit
MaxPushes      == 4     \* calls of heapPushBounded in one run
MaxCallers     == 3     \* concurrent callers of fetchJsonWithCache
ClockStart     == 1000  \* Date.now() when the first caller arrives
ClockSpan      == 1700  \* the clock runs from ClockStart to ClockStart + ClockSpan
TickMs         == 50    \* granularity of the clock while calls arrive
TickWindow     == 150   \* calls arrive within TickWindow ms of ClockStart
MaxLoaders     == 2     \* concurrent callers of the shard loaders
MaxLoads       == 3     \* calls of the shard loaders in one run
MaxScore       == 2     \* the selector's test scores are drawn from 0..MaxScore
MaxSimLimit    == 2     \* computeSimilarOnDemand(pkg, limit), limit in 1..MaxSimLimit
MaxLiveOption  == 2     \* options.maxLiveCandidates absent or in 1..MaxLiveOption
MaxUpdaters    == 2     \* processes running the weekly update
UpdClockStart  == 100000000     \* Date.now() when the first updater starts
UpdTick        == 50000000      \* granularity of the clock of the updaters
MaxUpdTicks    == 2     \* the clock runs for MaxUpdTicks ticks
MaxBitsetId    == 4     \* the arrays of jaccardBitset hold ids of 0..MaxBitsetId
MaxNameLen     == 2     \* normalizePackageName is applied to names of 0..MaxNameLen characters
\* the settings below are read from the environment (lib/config.ts); the
\* model runs with settings as small as its candidate lists
BATCH_SIZE     == 3     \* EARLY_TERMINATION_CONFIG.BATCH_SIZE (config.ts 154)
CANDIDATES_EVALUATION == 2      \* CONCURRENCY_CONFIG.CANDIDATES_EVALUATION (config.ts 30)
DEPENDENTS_SCAN == 2            \* CONCURRENCY_CONFIG.DEPENDENTS_SCAN (config.ts 29)
MIN_CHECKED_MULTIPLIER == 1     \* EARLY_TERMINATION_CONFIG.MIN_CHECKED_MULTIPLIER (config.ts 151)
MAX_CANDIDATES_TO_COLLECT == 5  \* LIMITS_CONFIG.MAX_CANDIDATES_TO_COLLECT (config.ts 47)
EARLY_TERMINATE_CANDIDATES == 5 \* LIMITS_CONFIG.EARLY_TERMINATE_CANDIDATES (config.ts 48)
SmallLen       == 2     \* sets of 0..SmallLen elements, and
BigSpan        == 1     \* of THRESHOLD - BigSpan .. THRESHOLD + BigSpan elements
MaxShift       == 1     \* whose smallest element is one of 0..MaxShift
NearSpan       == 1     \* successful fetches up to NearSpan below a limit of the sample size
MaxStep        == 2     \* two numbers of successful fetches differ by 1..MaxStep

Tasks == 1..MaxTasks

(***************************************************************************)
(* Generic helpers.                                                        *)
(***************************************************************************)
Min2(a, b) == IF a <= b THEN a ELSE b
Max2(a, b) == IF a >= b THEN a ELSE b

RECURSIVE SeqSum(_)
SeqSum(s) == IF s = <<>> THEN 0 ELSE Head(s) + SeqSum(Tail(s))

\* number of indices of s whose value is v
CountIn(s, v) == Cardinality({i \in DOMAIN s : s[i] = v})

(***************************************************************************)
(* createLimiter: the limiter is the pair (running, queue); a task is the  *)
(* closure run() of one limit(fn) call.  fn() always returns a promise     *)
(* (every caller passes function () { return withTimeout(...) }), so       *)
(* run() never throws synchronously.                                       *)
(***************************************************************************)

\* similar.ts 75: the admission test of limit(fn)
LimiterHasSlot_Mutant(r, c) == r <= c
LimiterHasSlot(r, c) == r < c

\* similar.ts 53-81: limit(fn) -- run() at once, or queue.push(run)
LimiterSubmit(t) ==
    /\ taskState[t] = "new"
    /\ IF LimiterHasSlot(running, concurrency)
         THEN /\ running' = running + 1
              /\ taskState' = [taskState EXCEPT ![t] = "running"]
              /\ startOrder' = Append(startOrder, t)
              /\ UNCHANGED <<queue, queuedOrder>>
         ELSE /\ queue' = Append(queue, t)
              /\ queuedOrder' = Append(queuedOrder, t)
              /\ taskState' = [taskState EXCEPT ![t] = "queued"]
              /\ UNCHANGED <<running, startOrder>>
    /\ UNCHANGED <<concurrency, notLim>>

\* similar.ts 58-73: fn() settles with outcome (resolve or reject); the
\* handler decrements running, settles the caller's promise and, when the
\* queue is not empty, shifts the next run() and calls it.
LimiterSettle_Mutant(t, outcome) ==
    /\ taskState[t] = "running"
    /\ IF Len(queue) > 0
         THEN LET next == queue[Len(queue)] IN
              /\ queue' = SubSeq(queue, 1, Len(queue) - 1)
              /\ running' = (running - 1) + 1
              /\ taskState' = [taskState EXCEPT ![t] = outcome, ![next] = "running"]
              /\ startOrder' = Append(startOrder, next)
         ELSE /\ running' = running - 1
              /\ taskState' = [taskState EXCEPT ![t] = outcome]
              /\ UNCHANGED <<queue, startOrder>>
    /\ UNCHANGED <<concurrency, queuedOrder, notLim>>
LimiterSettle(t, outcome) ==
    /\ taskState[t] = "running"
    /\ IF Len(queue) > 0
         THEN LET next == Head(queue) IN
              /\ queue' = Tail(queue)
              /\ running' = (running - 1) + 1
              /\ taskState' = [taskState EXCEPT ![t] = outcome, ![next] = "running"]
              /\ startOrder' = Append(startOrder, next)
         ELSE /\ running' = running - 1
              /\ taskState' = [taskState EXCEPT ![t] = outcome]
              /\ UNCHANGED <<queue, startOrder>>
    /\ UNCHANGED <<concurrency, queuedOrder, notLim>>

\* similar.ts 59-66: the .then handler
LimiterResolve(t) == LimiterSettle(t, "resolved")
\* similar.ts 67-74: the .catch handler
LimiterReject_Mutant(t) ==
    /\ taskState[t] = "running"
    /\ taskState' = [taskState EXCEPT ![t] = "rejected"]
    /\ UNCHANGED <<running, queue, startOrder, concurrency, queuedOrder, notLim>>
LimiterReject(t) == LimiterSettle(t, "rejected")


(***************************************************************************)
(* Bounded top-K selector.  The source's array is 0-based; heap[i] of the  *)
(* source is h[i + 1] here, and every index below is the source's index.   *)
(***************************************************************************)
At(h, i) == h[i + 1]

\* similar.ts 344-348
heapSwap(h, i, j) == [h EXCEPT ![i + 1] = h[j + 1], ![j + 1] = h[i + 1]]

\* similar.ts 352: the test that ends heapSiftUp's loop
SiftUpStops_Mutant(h, p, i) == At(h, p).jaccard >= At(h, i).jaccard
SiftUpStops(h, p, i) == At(h, p).jaccard <= At(h, i).jaccard

\* similar.ts 349-356
RECURSIVE heapSiftUp(_, _)
heapSiftUp(h, i) ==
    IF i > 0
      THEN LET p == (i - 1) \div 2 IN
           IF SiftUpStops(h, p, i) THEN h
           ELSE heapSiftUp(heapSwap(h, i, p), p)
      ELSE h

\* similar.ts 357-369
RECURSIVE heapSiftDown(_, _)
heapSiftDown(h, i) ==
    LET n  == Len(h)
        l  == 2 * i + 1
        r  == l + 1
        m1 == IF l < n /\ At(h, l).jaccard < At(h, i).jaccard THEN l ELSE i
        m  == IF r < n /\ At(h, r).jaccard < At(h, m1).jaccard THEN r ELSE m1
    IN  IF m = i THEN h ELSE heapSiftDown(heapSwap(h, i, m), m)

\* similar.ts 371: the test that lets heapPushBounded grow the array
HeapHasRoom_Mutant(h, k) == Len(h) <= k
HeapHasRoom(h, k) == Len(h) < k

\* similar.ts 370-380
heapPushBounded(h, k, item) ==
    IF HeapHasRoom(h, k) THEN heapSiftUp(Append(h, item), Len(h))
    ELSE IF k <= 0 THEN h
    ELSE IF At(h, 0).jaccard >= item.jaccard THEN h
    ELSE heapSiftDown([h EXCEPT ![1] = item], 0)

(***************************************************************************)
(* SpecHeap: the selector on its own.  limit is any integer 0..MaxLimit,   *)
(* the items arrive in any order with any score.                           *)
(***************************************************************************)
HeapScores == 0..MaxScore       \* only the order of the scores matters here
HeapNames  == {"c1", "c2"}
HeapItems  == [name : HeapNames, jaccard : HeapScores, sharedDependents : {0}]

HeapPush(item) ==
    /\ Len(pushed) < MaxPushes
    /\ heap' = heapPushBounded(heap, limit, item)
    /\ pushed' = Append(pushed, item)
    /\ UNCHANGED <<limit, notHeap>>

(***************************************************************************)
(* rateLimit and fetchJsonWithCache (lib/pypi.ts, listed in README.md).    *)
(* One action is one turn of the event loop: a call, a timer that fires,   *)
(* or a response that arrives, together with the synchronous code and the  *)
(* promise continuations that follow it.  A timer fires at or after its    *)
(* time.                                                                   *)
(***************************************************************************)
REQUEST_DELAY_MS       == 150       \* config.ts 240
MAX_RETRY_ATTEMPTS     == 5         \* config.ts 234
RETRY_INITIAL_DELAY_MS == 1000      \* config.ts 235
RETRY_MAX_DELAY_MS     == 10000     \* config.ts 236
RETRY_JITTER_MS        == 500       \* config.ts 237

Callers == 1..MaxCallers

\* The requests: a cache key and the URL it is fetched from.  urlWord says
\* that the URL holds one of isRetryableError's words ("timeout",
\* "network", "connection": packages such as async-timeout or networkx).
Requests ==
    { [key |-> "pypi:meta:requests",      domain |-> "pypi.org", urlWord |-> FALSE],
      [key |-> "pypi:meta:async-timeout", domain |-> "pypi.org", urlWord |-> TRUE] }
Domains == {r.domain : r \in Requests}

\* what comes back for one request
Responses == {"ok", "http429or5xx", "http4xx", "networkError", "otherError"}

RECURSIVE Pow2(_)
Pow2(n) == IF n <= 0 THEN 1 ELSE 2 * Pow2(n - 1)

\* Math.floor(Math.random() * RETRY_JITTER_MS), sampled at its middle value
Jitters == {RETRY_JITTER_MS \div 2}

\* README.md 276 / 302-303: exponential backoff, capped, plus jitter
BackoffDelay(attempt, jitter) ==
    Min2(RETRY_INITIAL_DELAY_MS * Pow2(attempt - 1), RETRY_MAX_DELAY_MS) + jitter

\* README.md 211-220: isRetryableError applied to what the attempt threw.
\* An HTTP error is Error("HTTP <status> for <url>") with no code, so it is
\* retryable exactly when the URL holds one of the words.
isRetryableError(resp, req) ==
    CASE resp = "networkError" -> TRUE
      [] resp \in {"http429or5xx", "http4xx"} -> req.urlWord
      [] OTHER -> FALSE

\* README.md 226-228: must rateLimit sleep?
MustWait_Mutant(elapsed) == FALSE
MustWait(elapsed) == elapsed < REQUEST_DELAY_MS

\* README.md 271: the request of one attempt goes out; attempt += 1 (268).
\* dispatched keeps the times of the last two requests sent to the domain.
LastTwo(s) == IF Len(s) <= 2 THEN s ELSE SubSeq(s, Len(s) - 1, Len(s))

Dispatch(c, f, d) ==
    /\ fetcher' = [fetcher EXCEPT ![c] =
          [f EXCEPT !.pc = "inflight", !.attempt = f.attempt + 1, !.wake = 0]]
    /\ dispatched' = [dispatched EXCEPT ![d] = LastTwo(Append(dispatched[d], now))]

\* README.md 223-231: rateLimit(domain) up to its first suspension, and, when
\* it does not suspend, the request that follows it
rateLimit(c, f) ==
    LET d       == f.req.domain
        last    == lastRequestTime[d]
        elapsed == now - last
    IN  IF MustWait(elapsed)
          THEN /\ fetcher' = [fetcher EXCEPT ![c] =
                     [f EXCEPT !.pc = "rateLimit",
                               !.wake = now + (REQUEST_DELAY_MS - elapsed)]]
               /\ UNCHANGED <<lastRequestTime, dispatched>>
          ELSE /\ lastRequestTime' = [lastRequestTime EXCEPT ![d] = now]
               /\ Dispatch(c, f, d)

\* README.md 247-266: fetchJsonWithCache is called
FetchCall(c, req) ==
    /\ fetcher[c].pc = "idle"
    /\ \A b \in Callers : b < c => fetcher[b].pc # "idle"   \* callers are numbered by arrival
    /\ IF req.key \in lru
         THEN /\ fetcher' = [fetcher EXCEPT ![c] =
                    [@ EXCEPT !.pc = "returned", !.req = req]]
              /\ UNCHANGED <<lastRequestTime, dispatched>>
         ELSE rateLimit(c, [fetcher[c] EXCEPT !.req = req])
    /\ UNCHANGED <<now, lru, notRate>>

\* README.md 228-230: rateLimit's timer fires; the timestamp is stored and the
\* request goes out
RateLimitWake(c) ==
    LET f == fetcher[c] IN
    /\ f.pc = "rateLimit"
    /\ now >= f.wake
    /\ lastRequestTime' = [lastRequestTime EXCEPT ![f.req.domain] = now]
    /\ Dispatch(c, f, f.req.domain)
    /\ UNCHANGED <<now, lru, notRate>>

\* README.md 268-310: the answer to one attempt
FetchResponse(c, resp, jitter) ==
    LET f == fetcher[c]
        retry429 == resp = "http429or5xx" /\ f.attempt < MAX_RETRY_ATTEMPTS
        shouldRetry == isRetryableError(resp, f.req)
    IN
    /\ f.pc = "inflight"
    /\ IF resp = "ok"
         THEN /\ lru' = lru \cup {f.req.key}
              /\ fetcher' = [fetcher EXCEPT ![c] = [f EXCEPT !.pc = "returned"]]
         ELSE /\ UNCHANGED lru
              /\ IF retry429 \/ (shouldRetry /\ f.attempt < MAX_RETRY_ATTEMPTS)
                   THEN fetcher' = [fetcher EXCEPT ![c] =
                           [f EXCEPT !.pc = "backoff",
                                     !.wake = now + BackoffDelay(f.attempt, jitter)]]
                   ELSE fetcher' = [fetcher EXCEPT ![c] = [f EXCEPT !.pc = "threw"]]
    /\ UNCHANGED <<now, lastRequestTime, dispatched, notRate>>

\* README.md 277-279 / 304-307: the backoff timer fires; rateLimit again
BackoffWake(c) ==
    /\ fetcher[c].pc = "backoff"
    /\ now >= fetcher[c].wake
    /\ rateLimit(c, fetcher[c])
    /\ UNCHANGED <<now, lru, notRate>>

\* Time passes.  Within the first TickWindow ms the clock moves in steps of
\* TickMs, so that calls and responses fall at every offset; at any time it
\* may move to the time of the next pending timer.  The event loop is idle
\* whenever a timer is due, so no timer fires late: the clock never passes
\* the time of a pending timer.
PendingWakes == {fetcher[c].wake : c \in {x \in Callers : fetcher[x].pc \in {"rateLimit", "backoff"}}}

Tick ==
    /\ \E t \in {now + TickMs} \cup {w \in PendingWakes : w > now} :
          /\ t <= ClockStart + ClockSpan
          /\ t \in PendingWakes \/ t <= ClockStart + TickWindow
          /\ \A w \in PendingWakes : t <= w
          /\ now' = t
    /\ UNCHANGED <<lastRequestTime, lru, fetcher, dispatched, notRate>>

RateInit ==
    /\ now = ClockStart
    /\ lastRequestTime = [d \in Domains |-> 0]
    /\ lru = {}
    /\ fetcher = [c \in Callers |->
          [pc |-> "idle", req |-> CHOOSE r \in Requests : TRUE, wake |-> 0, attempt |-> 0]]
    /\ dispatched = [d \in Domains |-> <<>>]

(***************************************************************************)
(* Reverse-dependency shard loading (lib/cache.ts, listed in README.md).   *)
(* One action is one turn of the event loop: a call with the synchronous   *)
(* code up to its first pending await, or the completion of one            *)
(* fs.readFile with every continuation that it resolves.  A file of the    *)
(* data directory is named by what stands between "reverseDeps-" and       *)
(* ".json"; the two legacy files are "csv" and "1000".  The data of a      *)
(* cache is the set of the files it was read from.                         *)
(***************************************************************************)
\* README.md 476-485: a-z, "0-9", "other"; two of them are kept
getAllPrefixChars == {"a", "b"}
\* 645: files a shard was split into
TwoCharFiles == {"a-ab"}
SplitFiles == getAllPrefixChars \cup TwoCharFiles
\* 681, 693: reverseDeps.csv.json and reverseDeps.1000.json
LegacyFiles == {"csv", "1000"}
AllFiles == SplitFiles \cup LegacyFiles
Loaders == 1..MaxLoaders

\* fs.readFile + JSON.parse: an object with entries, the object {}, or a throw
ReadOutcomes == {"data", "emptyObject", "failed"}

IdleLoader == [pc |-> "idle", prefix |-> "", got |-> {}, result |-> {}]
DoneLoader(res) == [pc |-> "done", prefix |-> "", got |-> {}, result |-> res]

\* the object held by prefixCacheState for p
PrefixData(cs, p) == IF cs[p] = "data" THEN {p} ELSE {}

\* 556-559: Object.assign of every prefix's data
Combined(cs) == {p \in getAllPrefixChars : cs[p] = "data"}

CanCall(c) == loader[c].pc \in {"idle", "done"} /\ loads < MaxLoads

\* the states a call of loadReverseDepsCacheAsync waits in
CacheCallWaits == {"waitAll", "waitDir", "waitCsv", "waitLegacy"}

\* similar.ts 110, 340: const cache = await loadReverseDepsCacheAsync(), for
\* the loaders whose call returns in this turn; callers are the loaders
\* that made the call in this turn
returned(callers) ==
    caches' = [c \in Loaders |->
                  IF /\ loader'[c].pc = "done"
                     /\ c \in callers \/ loader[c].pc \in CacheCallWaits
                    THEN Append(caches[c], loader'[c].result)
                    ELSE caches[c]]

\* 504-536 loadPrefixFileAsync(prefix, dataDir), called by loader c
loadPrefixFileAsync(c, p) ==
    /\ CanCall(c)
    /\ loads' = loads + 1
    /\ IF prefixCacheState[p] # "absent"
         THEN /\ loader' = [loader EXCEPT ![c] = DoneLoader(PrefixData(prefixCacheState, p))]
              /\ UNCHANGED <<prefixLoadingState, readCount>>
       ELSE IF prefixLoadingState[p] = "pending"
         THEN /\ loader' = [loader EXCEPT ![c] = [IdleLoader EXCEPT !.pc = "waitPrefix", !.prefix = p]]
              /\ UNCHANGED <<prefixLoadingState, readCount>>
       ELSE IF prefixLoadingState[p] = "settled"
         THEN /\ loader' = [loader EXCEPT ![c] = DoneLoader({})]
              /\ UNCHANGED <<prefixLoadingState, readCount>>
       ELSE IF p \in dirFiles
         THEN /\ readCount' = [readCount EXCEPT ![p] = @ + 1]
              /\ prefixLoadingState' = [prefixLoadingState EXCEPT ![p] = "pending"]
              /\ loader' = [loader EXCEPT ![c] = [IdleLoader EXCEPT !.pc = "waitPrefix", !.prefix = p]]
       ELSE   \* 523, 530, 534: the promise is stored after its finally ran
              /\ prefixLoadingState' = [prefixLoadingState EXCEPT ![p] = "settled"]
              /\ loader' = [loader EXCEPT ![c] = DoneLoader({})]
              /\ UNCHANGED readCount
    /\ UNCHANGED <<dirFiles, legacyFiles, prefixCacheState, reverseDepsCache,
                   allPrefixesLoaded, reads, caches, notShard>>

\* 692-706 strategy 3, entered by loader c with read counts rc and reads rs
Strategy3(c, rc, rs) ==
    IF "1000" \notin legacyFiles
      THEN /\ reverseDepsCache' = <<{}>>
           /\ loader' = [loader EXCEPT ![c] = DoneLoader({})]
           /\ readCount' = rc
           /\ reads' = rs
      ELSE /\ readCount' = [rc EXCEPT !["1000"] = @ + 1]
           /\ reads' = rs \cup {<<c, "1000">>}
           /\ loader' = [loader EXCEPT ![c] = [IdleLoader EXCEPT !.pc = "waitLegacy"]]
           /\ UNCHANGED reverseDepsCache

\* 680-690 strategy 2, falling through to strategy 3
Strategy2(c, rc, rs) ==
    IF "csv" \in legacyFiles
      THEN /\ readCount' = [rc EXCEPT !["csv"] = @ + 1]
           /\ reads' = rs \cup {<<c, "csv">>}
           /\ loader' = [loader EXCEPT ![c] = [IdleLoader EXCEPT !.pc = "waitCsv"]]
           /\ UNCHANGED reverseDepsCache
      ELSE Strategy3(c, rc, rs)

\* 550-552: the prefixes whose file loadAllPrefixFilesAsync starts to read
PrefixesToRead_Mutant ==
    {p \in getAllPrefixChars : /\ prefixLoadingState[p] = "absent"
                               /\ p \in dirFiles}
PrefixesToRead ==
    {p \in getAllPrefixChars : /\ prefixCacheState[p] = "absent"
                               /\ prefixLoadingState[p] = "absent"
                               /\ p \in dirFiles}

\* 622-707 loadReverseDepsCacheAsync(), called by loader c; 641-643 runs
\* loadAllPrefixFilesAsync (541-564) up to its await
loadReverseDepsCacheAsync(c) ==
    /\ CanCall(c)
    /\ loads' = loads + 1
    /\ IF reverseDepsCache # <<>>
         THEN /\ loader' = [loader EXCEPT ![c] = DoneLoader(reverseDepsCache[1])]
              /\ UNCHANGED <<readCount, reads, prefixLoadingState, reverseDepsCache,
                             allPrefixesLoaded>>
       ELSE IF getAllPrefixChars \subseteq dirFiles
         THEN LET started == PrefixesToRead
                  ls == [p \in getAllPrefixChars |->
                            IF p \in started THEN "pending" ELSE prefixLoadingState[p]]
              IN  /\ readCount' = [f \in AllFiles |->
                            IF f \in started THEN readCount[f] + 1 ELSE readCount[f]]
                  /\ prefixLoadingState' = ls
                  /\ UNCHANGED reads
                  /\ IF \E p \in getAllPrefixChars : ls[p] = "pending"
                       THEN /\ loader' = [loader EXCEPT ![c] = [IdleLoader EXCEPT !.pc = "waitAll"]]
                            /\ UNCHANGED <<reverseDepsCache, allPrefixesLoaded>>
                       ELSE /\ allPrefixesLoaded' = TRUE
                            /\ reverseDepsCache' = <<Combined(prefixCacheState)>>
                            /\ loader' = [loader EXCEPT ![c] = DoneLoader(Combined(prefixCacheState))]
       ELSE IF dirFiles # {}
         THEN \* 647-665: every reverseDeps-*.json of the directory is read
              /\ readCount' = [f \in AllFiles |->
                            IF f \in dirFiles THEN readCount[f] + 1 ELSE readCount[f]]
              /\ reads' = reads \cup {<<c, f>> : f \in dirFiles}
              /\ loader' = [loader EXCEPT ![c] = [IdleLoader EXCEPT !.pc = "waitDir"]]
              /\ UNCHANGED <<prefixLoadingState, reverseDepsCache, allPrefixesLoaded>>
       ELSE   /\ Strategy2(c, readCount, reads)
              /\ UNCHANGED <<prefixLoadingState, allPrefixesLoaded>>
    /\ returned({c})
    /\ UNCHANGED <<dirFiles, legacyFiles, prefixCacheState, notShard>>

\* 518-531: the read started by loadPrefixFileAsync ends; 554-563: the
\* callers of loadAllPrefixFilesAsync go on once every prefix is settled
PrefixReadComplete(p, outcome) ==
    /\ prefixLoadingState[p] = "pending"
    /\ LET cs == [prefixCacheState EXCEPT ![p] = IF outcome = "data" THEN "data" ELSE "empty"]
           ls == [prefixLoadingState EXCEPT ![p] = "absent"]
           allSettled == \A q \in getAllPrefixChars : ls[q] # "pending"
       IN  /\ prefixCacheState' = cs
           /\ prefixLoadingState' = ls
           /\ loader' = [c \in Loaders |->
                 IF loader[c].pc = "waitPrefix" /\ loader[c].prefix = p
                   THEN DoneLoader(PrefixData(cs, p))
                 ELSE IF loader[c].pc = "waitAll" /\ allSettled
                   THEN DoneLoader(Combined(cs))
                 ELSE loader[c]]
           /\ IF allSettled /\ \E c \in Loaders : loader[c].pc = "waitAll"
                THEN /\ allPrefixesLoaded' = TRUE
                     /\ reverseDepsCache' = <<Combined(cs)>>
                ELSE UNCHANGED <<allPrefixesLoaded, reverseDepsCache>>
    /\ returned({})
    /\ UNCHANGED <<dirFiles, legacyFiles, readCount, reads, loads, notShard>>

\* 654-674: one read of the else branch ends; after the last one the
\* merged data is kept when it has entries
DirReadComplete(c, f, outcome) ==
    /\ loader[c].pc = "waitDir"
    /\ <<c, f>> \in reads
    /\ LET rs  == reads \ {<<c, f>>}
           got == loader[c].got \cup (IF outcome = "data" THEN {f} ELSE {})
       IN  IF \E g \in SplitFiles : <<c, g>> \in rs
             THEN /\ loader' = [loader EXCEPT ![c].got = got]
                  /\ reads' = rs
                  /\ UNCHANGED <<readCount, reverseDepsCache>>
           ELSE IF got # {}
             THEN /\ reverseDepsCache' = <<got>>
                  /\ loader' = [loader EXCEPT ![c] = DoneLoader(got)]
                  /\ reads' = rs
                  /\ UNCHANGED readCount
           ELSE Strategy2(c, readCount, rs)
    /\ returned({})
    /\ UNCHANGED <<dirFiles, legacyFiles, prefixCacheState, prefixLoadingState,
                   allPrefixesLoaded, loads, notShard>>

\* 684-689: the read of reverseDeps.csv.json ends
CsvReadComplete(c, outcome) ==
    /\ loader[c].pc = "waitCsv"
    /\ <<c, "csv">> \in reads
    /\ IF outcome # "failed"
         THEN /\ reverseDepsCache' = <<IF outcome = "data" THEN {"csv"} ELSE {}>>
              /\ loader' = [loader EXCEPT ![c] =
                               DoneLoader(IF outcome = "data" THEN {"csv"} ELSE {})]
              /\ reads' = reads \ {<<c, "csv">>}
              /\ UNCHANGED readCount
         ELSE Strategy3(c, readCount, reads \ {<<c, "csv">>})
    /\ returned({})
    /\ UNCHANGED <<dirFiles, legacyFiles, prefixCacheState, prefixLoadingState,
                   allPrefixesLoaded, loads, notShard>>

\* 699-706: the read of reverseDeps.1000.json ends
LegacyReadComplete(c, outcome) ==
    /\ loader[c].pc = "waitLegacy"
    /\ <<c, "1000">> \in reads
    /\ reverseDepsCache' = <<IF outcome = "data" THEN {"1000"} ELSE {}>>
    /\ loader' = [loader EXCEPT ![c] = DoneLoader(IF outcome = "data" THEN {"1000"} ELSE {})]
    /\ reads' = reads \ {<<c, "1000">>}
    /\ returned({})
    /\ UNCHANGED <<dirFiles, legacyFiles, prefixCacheState, prefixLoadingState,
                   allPrefixesLoaded, readCount, loads, notShard>>

\* 411-418: the module's state when it is loaded, for a data directory
\* holding the files d and l
ShardInit(d, l) ==
    /\ dirFiles = d
    /\ legacyFiles = l
    /\ prefixCacheState = [p \in getAllPrefixChars |-> "absent"]
    /\ prefixLoadingState = [p \in getAllPrefixChars |-> "absent"]
    /\ reverseDepsCache = <<>>
    /\ allPrefixesLoaded = FALSE
    /\ readCount = [f \in AllFiles |-> 0]
    /\ reads = {}
    /\ loader = [c \in Loaders |-> IdleLoader]
    /\ loads = 0
    /\ caches = [c \in Loaders |-> <<>>]

(***************************************************************************)
(* computeSimilarOnDemand (lib/similar.ts 119-615).  A package name is a   *)
(* sequence of one-character strings.  A score is held in millionths, the  *)
(* precision of toFixed(6); a threshold is held in the same unit.          *)
(***************************************************************************)
\* ---- strings
UpperToLower == [A |-> "a", B |-> "b", H |-> "h"]
toLowerCase(s) ==
    [i \in DOMAIN s |-> IF s[i] \in DOMAIN UpperToLower THEN UpperToLower[s[i]] ELSE s[i]]

\* similar.ts 26: replace(/[-_.]/g, "-")
Separators == {"-", "_", "."}
replaceSeparators(s) == [i \in DOMAIN s |-> IF s[i] \in Separators THEN "-" ELSE s[i]]

\* similar.ts 25-27
normalizePackageName_Mutant(name) == toLowerCase(name)
normalizePackageName(name) == toLowerCase(replaceSeparators(toLowerCase(name)))

\* String.prototype.includes
includes(s, sub) ==
    \E i \in 1..(Len(s) - Len(sub) + 1) : SubSeq(s, i, i + Len(sub) - 1) = sub

\* similar.ts 573-574, 959-960: lower.split(/[-_.\/]/)[0] || lower
mainNameOf(lower) ==
    LET cuts  == {i \in DOMAIN lower : lower[i] \in Separators \cup {"/"}}
        first == IF cuts = {} THEN lower
                 ELSE SubSeq(lower, 1, (CHOOSE i \in cuts : \A j \in cuts : i <= j) - 1)
    IN  IF first # <<>> THEN first ELSE lower

\* similar.ts 586, 973: the name test of both name-based passes
nameMatches(popLower, lower) ==
    \/ mainNameOf(popLower) = mainNameOf(lower)
    \/ includes(popLower, mainNameOf(lower))
    \/ includes(lower, mainNameOf(popLower))

\* similar.ts 159, 247, 289, 457, 555: two names denote the same package
SameName_Mutant(a, b) == a = b
SameName(a, b) == normalizePackageName(a) = normalizePackageName(b)

\* ---- the data the engine reads: names
nAB    == <<"a", "-", "b">>
nA_b   == <<"A", "_", "b">>
nAdotB == <<"a", ".", "b">>
nAG    == <<"a", ".", "g">>
nHG    == <<"h", ".", "g">>
nH     == <<"h">>
nHup   == <<"H">>
nK     == <<"k">>
nR     == <<"r">>
nS     == <<"s">>
nU1    == <<"u", "1">>
nU2    == <<"u", "2">>
nU3    == <<"u", "3">>
nQ     == <<"q">>
nW     == <<"w">>

\* data/popular.json as loadPopularPackages returns it (README.md 870-892)
loadPopularPackages == <<nA_b, nAG, nHG, nH>>

\* the merged reverseDeps-*.json: normalized name -> dependents
reverseDepsData ==
    (nAB :> <<nU1, nU2>>) @@ (nK :> <<nU1, nU2, nU3>>) @@ (nS :> <<nH, nU3>>) @@
    (nW :> <<nH, nQ>>)

\* requires_dist of the packages PyPI knows, by lowercased name, as
\* pickLatestDependencies returns it (README.md 354-399); h.g requires
\* "h.g[extra]", which pickLatestDependencies turns into "h.g"
packageDeps ==
    (nU1 :> <<nAdotB, nK>>) @@ (nU2 :> <<nK>>) @@ (nH :> <<nR, nS>>) @@
    (toLowerCase(nA_b) :> <<nR>>) @@ (nAG :> <<nR, nS>>) @@ (nHG :> <<nHG, nS>>) @@
    (nQ :> <<nHG, nR, nS>>) @@ (nU3 :> <<nK>>)

\* data/pkg-id-map.json and the rows of data/dependents/*.json by id;
\* every id lies in a shard of its own
idMap == (nAB :> 1) @@ (nAG :> 2) @@ (nHG :> 3) @@ (nS :> 4)
dependentsRows == << <<10, 11>>, <<10, 12>>, <<11, 12>>, <<10, 13, 14>> >>

\* the package names a caller asks about
Queries == {nAB, nHup, <<>>, nS, nK}

\* the values of options.maxLiveCandidates, 0 for an absent option
LiveOptions == 0..MaxLiveOption

\* how a fetchPackageMeta call and how a file read can end
FetchOutcomes == {"ok", "failed"}
FileOutcomes  == {"ok", "throw"}

\* ---- lookups
\* similar.ts 111, 408, 460, 556: cache[normalized] || cache[lowercase]
cacheLookup(name) ==
    IF normalizePackageName(name) \in DOMAIN reverseDepsData
      THEN reverseDepsData[normalizePackageName(name)]
    ELSE IF toLowerCase(name) \in DOMAIN reverseDepsData
      THEN reverseDepsData[toLowerCase(name)]
    ELSE <<>>

Range(s) == {s[i] : i \in DOMAIN s}

\* similar.ts 105-117 with README.md 346-352: the live lookup returns []
getReverseDeps(name) == cacheLookup(name)

\* README.md 316-320, 354-399: pickLatestDependencies(fetchPackageMeta(name))
metaDeps(name) ==
    IF toLowerCase(name) \in DOMAIN packageDeps THEN packageDeps[toLowerCase(name)] ELSE <<>>

\* README.md 956-974: the row of the package in the bitset index
bitsetOf(name) ==
    IF toLowerCase(name) \in DOMAIN idMap THEN dependentsRows[idMap[toLowerCase(name)]]
    ELSE <<>>

\* ---- configuration (lib/config.ts); a ratio is held in millionths
ScoreUnit == 1000000
MIN_JACCARD_SMALL_BASE         == 1000      \* 0.001
MIN_JACCARD_MEDIUM_BASE        == 10000     \* 0.01
MIN_JACCARD_BITSET_SMALL_BASE  == 1000      \* 0.001
MIN_JACCARD_BITSET_MEDIUM_BASE == 20000     \* 0.02
MIN_SHARED_SMALL_BASE          == 1
MIN_SHARED_MEDIUM_BASE         == 2
RELAXED_JACCARD_VERY_SMALL     == 100       \* 0.0001
RELAXED_JACCARD_SMALL          == 500       \* 0.0005
RELAXED_JACCARD_MEDIUM         == 1000      \* 0.001
MIN_RATIO_VERY_SMALL_DEPS      == 150000    \* 0.15
MIN_RATIO_SMALL_DEPS           == 100000    \* 0.1
MIN_RATIO_MEDIUM_DEPS          == 50000     \* 0.05
NAME_BASED_FALLBACK_SCORE      == 1000      \* 0.001
BASE_SIZE_VERY_SMALL           == 5
BASE_SIZE_SMALL                == 10
BASE_SIZE_MEDIUM               == 20
DEPS_COUNT_VERY_SMALL          == 5
DEPS_COUNT_SMALL               == 10
MIN_SCORE_FOR_EARLY_EXIT       == 100000    \* 0.1
FORWARD_DEPS_CHECK             == 5
DEFAULT_MAX_DEPENDENTS_TO_SCAN == 150
MAX_MAX_DEPENDENTS_TO_SCAN     == 1000
DEFAULT_MAX_LIVE_CANDIDATES    == 200
MAX_MAX_LIVE_CANDIDATES        == 1000
DEFAULT_TOP_SEARCH_LIMIT       == 250
MAX_TOP_SEARCH_LIMIT           == 250
CANDIDATES_MULTIPLIER_PER_LIMIT    == 15
MAX_PACKAGES_TO_CHECK_FORWARD_DEPS == 300
MAX_POPULAR_FOR_NAME_BASED     == 100
\* similar.ts 275, 429, 549
SCAN_BATCH_SIZE         == 20
MAX_CANDIDATES_EVALUATE == 5000
MAX_FALLBACK_CANDIDATES == 2000

\* config.ts 158-163
getJaccardThreshold(baseSize) ==
    IF baseSize < BASE_SIZE_SMALL THEN MIN_JACCARD_SMALL_BASE ELSE MIN_JACCARD_MEDIUM_BASE

\* config.ts 165-170
getBitsetJaccardThreshold(baseSize) ==
    IF baseSize < BASE_SIZE_SMALL THEN MIN_JACCARD_BITSET_SMALL_BASE
    ELSE MIN_JACCARD_BITSET_MEDIUM_BASE

\* config.ts 172-177
getSharedThreshold(baseSize) ==
    IF baseSize < BASE_SIZE_SMALL THEN MIN_SHARED_SMALL_BASE ELSE MIN_SHARED_MEDIUM_BASE

\* config.ts 179-187
getRelaxedJaccardThreshold(baseSize) ==
    IF baseSize < BASE_SIZE_VERY_SMALL THEN RELAXED_JACCARD_VERY_SMALL
    ELSE IF baseSize < BASE_SIZE_MEDIUM THEN RELAXED_JACCARD_SMALL
    ELSE RELAXED_JACCARD_MEDIUM

\* config.ts 189-197
getForwardDepsRatioThreshold(depsCount) ==
    IF depsCount < DEPS_COUNT_VERY_SMALL THEN MIN_RATIO_VERY_SMALL_DEPS
    ELSE IF depsCount < DEPS_COUNT_SMALL THEN MIN_RATIO_SMALL_DEPS
    ELSE MIN_RATIO_MEDIUM_DEPS

\* ---- scores
\* the ratio n / d is at least the threshold thr
ratioAtLeast(n, d, thr) == IF d > 0 THEN n * ScoreUnit >= thr * d ELSE 0 >= thr

\* Number((n / d).toFixed(6)), in millionths
toFixed6(n, d) == IF d > 0 THEN (2 * n * ScoreUnit + d) \div (2 * d) ELSE 0

\* similar.ts 88-103
canMeetThreshold_Mutant(candidateSize, baseSize, minJaccard) ==
    IF candidateSize = 0 \/ baseSize = 0 THEN FALSE
    ELSE ratioAtLeast(Min2(candidateSize, baseSize), candidateSize + baseSize, minJaccard)
canMeetThreshold(candidateSize, baseSize, minJaccard) ==
    IF candidateSize = 0 \/ baseSize = 0 THEN FALSE
    ELSE ratioAtLeast(Min2(candidateSize, baseSize), Max2(candidateSize, baseSize), minJaccard)

\* pypi-stats.ts 188-210 (lib/jaccard.ts): shared and unionSize
jaccardSimilarity(a, b) ==
    LET shared == Cardinality({x \in a : x \in b})
    IN  [shared |-> shared, unionSize |-> Cardinality(a) + Cardinality(b) - shared]

\* jaccardBitset.ts 3-19: the two-pointer count of common ids from (i, j) on
RECURSIVE bitsetInter(_, _, _, _)
bitsetInter(a, b, i, j) ==
    IF i > Len(a) \/ j > Len(b) THEN 0
    ELSE IF a[i] = b[j] THEN 1 + bitsetInter(a, b, i + 1, j + 1)
    ELSE IF a[i] < b[j] THEN bitsetInter(a, b, i + 1, j)
    ELSE bitsetInter(a, b, i, j + 1)

\* jaccardBitset.ts 1-20: inter and the size of the union
jaccardBitset_Mutant(a, b) ==
    IF Len(a) = 0 \/ Len(b) = 0 THEN [inter |-> 0, unionSize |-> 0]
    ELSE [inter |-> bitsetInter(a, b, 1, 1),
          unionSize |-> Len(a) + Len(b)]
jaccardBitset(a, b) ==
    IF Len(a) = 0 \/ Len(b) = 0 THEN [inter |-> 0, unionSize |-> 0]
    ELSE [inter |-> bitsetInter(a, b, 1, 1),
          unionSize |-> Len(a) + Len(b) - bitsetInter(a, b, 1, 1)]

\* Array.prototype.sort with a comparator that orders by the integer key
\* k[i] of the element at i; the sort is stable
stableSortBy(s, k) ==
    LET pos(i) == 1 + Cardinality({j \in DOMAIN s :
                        k[j] < k[i] \/ (k[j] = k[i] /\ j < i)})
    IN  [p \in DOMAIN s |-> s[CHOOSE i \in DOMAIN s : pos(i) = p]]

\* Array.prototype.slice(0, n)
sliceTo_Mutant(s, n) == s
sliceTo(s, n) == SubSeq(s, 1, Min2(Len(s), Max2(n, 0)))

\* a Set or Map keeps its first insertion of a key
addUnique(s, x) == IF x \in Range(s) THEN s ELSE Append(s, x)

\* ---- candidate evaluation (similar.ts 381-541).  An evaluation record e
\* holds what the synchronous code of the stage reads and writes:
\*   sorted (sortedCandidates), bb (baseBitset), heap, pushed, checked
\*   (checkedCount), live (liveFetches), started, pending (evaluations
\*   waiting for a shard read), fetching (evaluations waiting for the live
\*   lookup of line 488), issued (the calls of line 488 made so far),
\*   waiting (the limiter's queue), next (the batch loop's i), finished
\*   (the loop is left)

\* similar.ts 381
MAX_LIVE_CANDIDATES ==
    Min2(IF maxLiveCandidates # 0 THEN maxLiveCandidates ELSE DEFAULT_MAX_LIVE_CANDIDATES,
         MAX_MAX_LIVE_CANDIDATES)

\* similar.ts 429-430
candArrayOf(sorted) == sliceTo(sorted, Min2(MAX_CANDIDATES_EVALUATE, Len(sorted)))

\* similar.ts 392, 397-425: the comparator orders by (not popular, no
\* reverse deps, distance of the reverse-dep count to the base size)
sortCandidates(cands, baseSize) ==
    LET popularSet == {normalizePackageName(p) : p \in Range(loadPopularPackages)}
        size(c) == Len(cacheLookup(c))
        diff(c) == IF size(c) >= baseSize THEN size(c) - baseSize ELSE baseSize - size(c)
        key(c)  == (IF normalizePackageName(c) \in popularSet THEN 0 ELSE 10000)
                   + (IF size(c) = 0 THEN 1000 ELSE diff(c))
    IN  stableSortBy(cands, [i \in DOMAIN cands |-> key(cands[i])])

\* similar.ts 370-380 on the record
pushItem(e, item) ==
    [e EXCEPT !.heap = heapPushBounded(e.heap, limit, item), !.pushed = Append(@, item)]

\* similar.ts 486-488: the test of liveFetches and the call of
\* fetchReverseDependentsApprox(cand), whose promise the evaluation awaits
liveFetch(e, cand) ==
    IF e.live < MAX_LIVE_CANDIDATES
      THEN [e EXCEPT !.fetching = @ \cup {cand}, !.issued = @ + 1]
      ELSE e

\* similar.ts 488-495: the live lookup has returned [] (README.md 346-352),
\* liveFetches is raised and the evaluation ends on the empty set
liveFetched(e, cand) == [e EXCEPT !.fetching = @ \ {cand}, !.live = @ + 1]

\* the evaluations that hold a slot of candLimit
busy(e) == e.pending \cup e.fetching

\* similar.ts 466-468: the evaluation awaits getDependentsBitset(cand),
\* which reads the candidate's shard (README.md 961-966)
isIo(e, cand) ==
    /\ ~SameName(cand, pkg)
    /\ cacheLookup(cand) = <<>>
    /\ Len(e.bb) > 0
    /\ toLowerCase(cand) \in DOMAIN idMap

\* similar.ts 455-512 for a candidate that awaits no file read
syncBody(e, cand) ==
    LET depSet    == Range(cacheLookup(cand))
        baseSize  == Cardinality(Range(base))
        minShared == getSharedThreshold(baseSize)
        minJaccard == getJaccardThreshold(baseSize)
        jr        == jaccardSimilarity(Range(base), depSet)
    IN  IF SameName(cand, pkg) THEN e
        ELSE IF depSet = {} THEN liveFetch(e, cand)
        ELSE IF ~canMeetThreshold(Cardinality(depSet), baseSize, minJaccard) THEN e
        ELSE LET e1 == [e EXCEPT !.checked = @ + 1]
             IN  IF ratioAtLeast(jr.shared, jr.unionSize, minJaccard) /\ jr.shared >= minShared
                   THEN pushItem(e1, [name |-> cand,
                                      jaccard |-> toFixed6(jr.shared, jr.unionSize),
                                      sharedDependents |-> jr.shared])
                   ELSE e1

\* similar.ts 468-495 once the shard read of the candidate has ended
ioBody(e, cand, readOutcome) ==
    LET candBitset == IF readOutcome = "ok" THEN bitsetOf(cand) ELSE <<>>
        js == jaccardBitset(e.bb, candBitset)
    IN  IF /\ Len(candBitset) > 0
           /\ ratioAtLeast(js.inter, js.unionSize,
                           getBitsetJaccardThreshold(Cardinality(Range(base))))
          THEN pushItem(e, [name |-> cand, jaccard |-> toFixed6(js.inter, js.unionSize),
                            sharedDependents |-> 0])
          ELSE liveFetch(e, cand)

\* similar.ts 443-448
checkEarlyExit_Mutant(e) ==
    /\ Len(e.heap) >= limit
    /\ (IF Len(e.heap) > 0 THEN e.heap[1].jaccard ELSE 0) >= MIN_SCORE_FOR_EARLY_EXIT
checkEarlyExit(e) ==
    /\ Len(e.heap) >= limit
    /\ e.checked >= limit * MIN_CHECKED_MULTIPLIER
    /\ (IF Len(e.heap) > 0 THEN e.heap[1].jaccard ELSE 0) >= MIN_SCORE_FOR_EARLY_EXIT

\* similar.ts 53-81 as candLimit runs it: the next queued evaluation starts
startNext(e) ==
    LET c  == Head(e.waiting)
        e1 == [e EXCEPT !.waiting = Tail(@), !.started = @ \cup {c}]
    IN  IF isIo(e1, c) THEN [e1 EXCEPT !.pending = @ \cup {c}] ELSE syncBody(e1, c)

\* queued evaluations start while a slot is free; one that awaits nothing
\* gives its slot back within the same turn
RECURSIVE pumpEval(_)
pumpEval(e) ==
    IF e.waiting = <<>> \/ Cardinality(busy(e)) >= CANDIDATES_EVALUATION THEN e
    ELSE pumpEval(startNext(e))

\* similar.ts 522-533: the batch loop, up to a batch that has to wait;
\* batchStarts keeps what the loop saw each time it started a batch
RECURSIVE runBatches(_)
runBatches(e) ==
    IF e.next >= Len(candArrayOf(e.sorted)) THEN [e EXCEPT !.finished = TRUE]
    ELSE LET batch == SubSeq(candArrayOf(e.sorted), e.next + 1,
                             Min2(e.next + BATCH_SIZE, Len(candArrayOf(e.sorted))))
             e1 == pumpEval([e EXCEPT !.waiting = batch, !.next = @ + BATCH_SIZE,
                                      !.batchStarts = Append(@, [checked |-> e.checked,
                                                                 heap |-> e.heap])])
         IN  IF busy(e1) # {} THEN e1
             ELSE IF checkEarlyExit(e1) THEN [e1 EXCEPT !.finished = TRUE]
             ELSE runBatches(e1)

\* an evaluation gave its slot back: the queue moves on and, when the batch
\* is complete, so does the loop
afterEvaluation(e) ==
    LET e1 == pumpEval(e)
    IN  IF busy(e1) # {} THEN e1
        ELSE IF checkEarlyExit(e1) THEN [e1 EXCEPT !.finished = TRUE]
        ELSE runBatches(e1)

\* ---- what follows the batch loop (similar.ts 543-597)
nameBasedItem(name) ==
    [name |-> name, jaccard |-> NAME_BASED_FALLBACK_SCORE, sharedDependents |-> 0]

\* similar.ts 551-565: the cache-only pass with the relaxed threshold
RECURSIVE relaxedItems(_)
relaxedItems(cands) ==
    IF cands = <<>> THEN <<>>
    ELSE LET cand   == Head(cands)
             depSet == Range(cacheLookup(cand))
             jr     == jaccardSimilarity(Range(base), depSet)
             keep   == /\ ~SameName(cand, pkg)
                       /\ depSet # {}
                       /\ ratioAtLeast(jr.shared, jr.unionSize,
                              getRelaxedJaccardThreshold(Cardinality(Range(base))))
                       /\ jr.shared > 0
         IN  (IF keep THEN <<[name |-> cand, jaccard |-> toFixed6(jr.shared, jr.unionSize),
                              sharedDependents |-> jr.shared]>>
              ELSE <<>>) \o relaxedItems(Tail(cands))

\* b.jaccard - a.jaccard as sort comparator
sortByJaccardDesc(items) == stableSortBy(items, [i \in DOMAIN items |-> 0 - items[i].jaccard])

\* similar.ts 577-591: the popular names that resemble the query, from i on
RECURSIVE nameBasedScan(_, _)
nameBasedScan(i, found) ==
    IF i > Min2(Len(loadPopularPackages), MAX_POPULAR_FOR_NAME_BASED) THEN found
    ELSE LET pop      == loadPopularPackages[i]
             popLower == normalizePackageName(pop)
             lower    == normalizePackageName(pkg)
             found1   == IF nameMatches(popLower, lower)
                           THEN Append(found, nameBasedItem(pop)) ELSE found
         IN  IF SameName(pop, pkg) THEN nameBasedScan(i + 1, found)
             ELSE IF Len(found1) >= limit THEN found1
             ELSE nameBasedScan(i + 1, found1)

\* similar.ts 543-597: the results and the pass they come from
finishResults_Mutant(h, sorted) ==
    LET drained == sortByJaccardDesc(h)
        alt     == sliceTo(sortByJaccardDesc(relaxedItems(
                       sliceTo(sorted, Min2(MAX_FALLBACK_CANDIDATES, Len(sorted))))), limit)
        small   == Len(base) > 0 /\ Cardinality(Range(base)) < BASE_SIZE_SMALL
        named   == sliceTo(nameBasedScan(1, <<>>), limit)
    IN  IF Len(drained) > 0 THEN [results |-> drained, path |-> "primary"]
        ELSE IF small /\ Len(named) > 0 THEN [results |-> named, path |-> "nameBased"]
        ELSE IF Len(alt) > 0 THEN [results |-> alt, path |-> "relaxed"]
        ELSE [results |-> <<>>, path |-> "empty"]
finishResults(h, sorted) ==
    LET drained == sortByJaccardDesc(h)
        alt     == sliceTo(sortByJaccardDesc(relaxedItems(
                       sliceTo(sorted, Min2(MAX_FALLBACK_CANDIDATES, Len(sorted))))), limit)
        small   == Len(base) > 0 /\ Cardinality(Range(base)) < BASE_SIZE_SMALL
        named   == sliceTo(nameBasedScan(1, <<>>), limit)
    IN  IF Len(drained) > 0 THEN [results |-> drained, path |-> "primary"]
        ELSE IF Len(alt) > 0 THEN [results |-> alt, path |-> "relaxed"]
        ELSE IF small /\ Len(named) > 0 THEN [results |-> named, path |-> "nameBased"]
        ELSE [results |-> <<>>, path |-> "empty"]

\* similar.ts 964-992: the names computeSimilarNameBasedFallback collects
RECURSIVE similarNamesScan(_, _)
similarNamesScan(i, names) ==
    IF i > Len(loadPopularPackages) THEN names
    ELSE LET pop      == loadPopularPackages[i]
             popLower == normalizePackageName(pop)
             lower    == normalizePackageName(pkg)
             names1   == IF nameMatches(popLower, lower) /\ popLower # lower
                           THEN addUnique(names, pop) ELSE names
             popDeps  == IF popLower \in DOMAIN reverseDepsData
                           THEN Range(reverseDepsData[popLower]) ELSE {}
             names2   == IF /\ popDeps # {}
                            /\ (lower \in popDeps \/ pkg \in popDeps \/ pop \in Range(names1))
                            /\ popLower # lower
                           THEN addUnique(names1, pop) ELSE names1
         IN  IF SameName(pop, pkg) THEN similarNamesScan(i + 1, names)
             ELSE IF Len(names2) >= limit * 2 THEN names2
             ELSE similarNamesScan(i + 1, names2)

computeSimilarNameBasedFallback_Mutant ==
    LET names == sliceTo(similarNamesScan(1, <<>>), limit)
    IN  [results |-> [i \in DOMAIN names |->
                        [name |-> names[i], jaccard |-> 0, sharedDependents |-> 1]],
         path |-> "nameFallback"]
\* similar.ts 950-1003
computeSimilarNameBasedFallback ==
    LET names == sliceTo(similarNamesScan(1, <<>>), limit)
    IN  [results |-> [i \in DOMAIN names |-> nameBasedItem(names[i])],
         path |-> "nameFallback"]

\* ---- the forward-dependency strategy (similar.ts 127-239)
\* similar.ts 146
packagesToCheck ==
    Min2(Len(loadPopularPackages),
         Min2(limit * CANDIDATES_MULTIPLIER_PER_LIMIT, MAX_PACKAGES_TO_CHECK_FORWARD_DEPS))

\* similar.ts 161-175: the candidate's metadata arrived
checkBody(sim, deps, candidate) ==
    LET pkgDepsSet       == {normalizePackageName(d) : d \in Range(deps)}
        candidateDepsSet == {normalizePackageName(d) : d \in Range(metaDeps(candidate))}
        count            == Cardinality(pkgDepsSet \cap candidateDepsSet)
    IN  IF count > 0 /\ ~\E i \in DOMAIN sim : sim[i].name = candidate
          THEN Append(sim, [name |-> candidate, count |-> count])
          ELSE sim

\* similar.ts 198-237: the results of the strategy
forwardResults(sim, deps) ==
    LET totalDeps == Len(deps)
        items  == [i \in DOMAIN sim |->
                     [name |-> sim[i].name, jaccard |-> toFixed6(sim[i].count, totalDeps),
                      sharedDependents |-> sim[i].count]]
        kept   == SelectSeq(items, LAMBDA r :
                     r.sharedDependents >= 1 /\ r.jaccard >= getForwardDepsRatioThreshold(totalDeps))
        sorted == stableSortBy(kept, [i \in DOMAIN kept |->
                     0 - (kept[i].sharedDependents * (ScoreUnit + 1) + kept[i].jaccard)])
    IN  IF totalDeps = 0 THEN computeSimilarNameBasedFallback
        ELSE IF Len(sliceTo(sorted, limit)) > 0
          THEN [results |-> sliceTo(sorted, limit), path |-> "forward"]
        ELSE computeSimilarNameBasedFallback

\* the limiter of the forward check (similar.ts 147, 153-159): queued checks
\* start while a slot is free; the check of the query's own name returns
\* at once.  inF is the set of candidates whose metadata is being fetched
RECURSIVE pumpCheck(_, _)
pumpCheck(inF, q) ==
    IF q = <<>> \/ Cardinality(inF) >= FORWARD_DEPS_CHECK
      THEN [inFlight |-> inF, queued |-> q]
    ELSE IF SameName(Head(q), pkg) THEN pumpCheck(inF, Tail(q))
    ELSE pumpCheck(inF \cup {Head(q)}, Tail(q))

\* ---- the scan of the base package's dependents (similar.ts 258-335)
\* similar.ts 251-255: the popular packages seed the candidate set
topCandidates ==
    sliceTo(loadPopularPackages, Min2(DEFAULT_TOP_SEARCH_LIMIT, MAX_TOP_SEARCH_LIMIT))

\* seeds.ts (similar.ts 1467-1530): the curated peer group; two of the
\* model's packages stand for its names, one of them with dependents
UI_FRAMEWORKS == <<nK, nW>>

\* similar.ts 1532-1535
isUiFramework(name) == toLowerCase(name) \in Range(UI_FRAMEWORKS)

\* similar.ts 246-247: the peers other than the query
peerCandidates == SelectSeq(UI_FRAMEWORKS, LAMBDA n : ~SameName(n, pkg))

\* similar.ts 244-256: the candidate shortlist
shortlist ==
    IF restrictToPeerGroup /\ isUiFramework(pkg) THEN peerCandidates ELSE topCandidates

\* similar.ts 260-261
baseDependentsOf(b) ==
    sliceTo(b, Min2(DEFAULT_MAX_DEPENDENTS_TO_SCAN, MAX_MAX_DEPENDENTS_TO_SCAN))

\* similar.ts 277
scanBatch(b, i) ==
    SubSeq(baseDependentsOf(b), i + 1, Min2(i + SCAN_BATCH_SIZE, Len(baseDependentsOf(b))))

\* the limiter of the scan (similar.ts 262, 281)
RECURSIVE pumpScan(_, _)
pumpScan(inF, q) ==
    IF q = <<>> \/ Cardinality(inF) >= DEPENDENTS_SCAN
      THEN [inFlight |-> inF, queued |-> q]
    ELSE pumpScan(inF \cup {Head(q)}, Tail(q))

\* similar.ts 287-297: the dependencies of a dependent join the candidates
RECURSIVE addDeps(_, _)
addDeps(cands, deps) ==
    IF deps = <<>> THEN cands
    ELSE IF SameName(Head(deps), pkg) THEN addDeps(cands, Tail(deps))
    ELSE IF Len(addUnique(cands, Head(deps))) >= EARLY_TERMINATE_CANDIDATES
      THEN addUnique(cands, Head(deps))
    ELSE addDeps(addUnique(cands, Head(deps)), Tail(deps))

\* similar.ts 329-335
capCandidates(cands) ==
    IF Len(cands) > MAX_CANDIDATES_TO_COLLECT THEN sliceTo(cands, MAX_CANDIDATES_TO_COLLECT)
    ELSE cands

\* similar.ts 343, 382, 390-430, 439-440: the state the batch loop starts in
newEvaluation(cands, bb) ==
    [sorted |-> sortCandidates(cands, Cardinality(Range(base))), bb |-> bb,
     heap |-> <<>>, pushed |-> <<>>, checked |-> 0, live |-> 0, started |-> {},
     pending |-> {}, fetching |-> {}, issued |-> 0, waiting |-> <<>>, next |-> 0,
     finished |-> FALSE, batchStarts |-> <<>>]

noEvaluation ==
    [sorted |-> <<>>, bb |-> <<>>, heap |-> <<>>, pushed |-> <<>>, checked |-> 0,
     live |-> 0, started |-> {}, pending |-> {}, fetching |-> {}, issued |-> 0,
     waiting |-> <<>>, next |-> 0, finished |-> FALSE, batchStarts |-> <<>>]

\* ---- steps shared by the handlers
\* similar.ts 136, 200, 230, 234, 237, 614: the call returns r.results
Return(r) ==
    /\ pc' = "done"
    /\ callOutcome' = "returned"
    /\ results' = r.results
    /\ path' = r.path

\* similar.ts 386: the rejection of getDependentsBitset leaves the function
Throw ==
    /\ pc' = "done"
    /\ callOutcome' = "threw"
    /\ results' = <<>>
    /\ path' = "none"

\* similar.ts 390-597 from the snapshot of the candidates up to the first
\* evaluation that waits for a file, or to the return
StartEvaluation(cands, bb) ==
    LET e1 == runBatches(newEvaluation(cands, bb))
    IN  /\ ev' = e1
        /\ inFlight' = {}
        /\ queued' = <<>>
        /\ IF e1.finished THEN Return(finishResults(e1.heap, e1.sorted))
           ELSE pc' = "eval" /\ UNCHANGED <<callOutcome, results, path>>

\* similar.ts 328-386: the scan is over or abandoned.  Without the index
\* files getDependentsBitset reads nothing (README.md 938, 947, 957)
AfterScan(cands, inF, q) ==
    /\ candidates' = capCandidates(cands)
    /\ IF indexPresent
         THEN /\ pc' = "idMap"
              /\ inFlight' = inF
              /\ queued' = q
              /\ UNCHANGED <<callOutcome, results, path, ev>>
         ELSE StartEvaluation(capCandidates(cands), <<>>)

\* ---- the handlers of one call computeSimilarOnDemand(pkg, limit)
\* similar.ts 125-127, 244-285: the call up to its first wait
Call ==
    /\ pc = "idle"
    /\ base' = getReverseDeps(pkg)
    /\ IF Len(getReverseDeps(pkg)) < 1
         THEN /\ pc' = "fwdMeta"
              /\ UNCHANGED <<candidates, inFlight, queued>>
         ELSE LET p == pumpScan({}, scanBatch(getReverseDeps(pkg), 0))
              IN  /\ pc' = "scan"
                  /\ candidates' = shortlist
                  /\ inFlight' = p.inFlight
                  /\ queued' = p.queued
    /\ UNCHANGED <<pkg, maxLiveCandidates, indexPresent, callOutcome, results, path, timedOut, pkgDeps,
                   similar, scanNext, ev, evalOutcome>>
    /\ UNCHANGED notSim

\* similar.ts 131-159, 235-237: the metadata of the query arrives or fails
FwdMetaResponse(fetched) ==
    /\ pc = "fwdMeta"
    /\ LET deps == IF fetched = "ok" THEN metaDeps(pkg) ELSE <<>>
           p    == pumpCheck({}, sliceTo(loadPopularPackages, packagesToCheck))
       IN  /\ pkgDeps' = deps
           /\ IF Len(deps) = 0
                THEN Return(computeSimilarNameBasedFallback)
                     /\ UNCHANGED <<inFlight, queued>>
              ELSE IF p.inFlight = {}
                THEN Return(forwardResults(<<>>, deps))
                     /\ UNCHANGED <<inFlight, queued>>
              ELSE /\ pc' = "fwdCheck"
                   /\ inFlight' = p.inFlight
                   /\ queued' = p.queued
                   /\ UNCHANGED <<callOutcome, results, path>>
    /\ UNCHANGED <<pkg, maxLiveCandidates, indexPresent, timedOut, base, similar, candidates, scanNext,
                   ev, evalOutcome>>
    /\ UNCHANGED notSim

\* similar.ts 161-178, 198-234: the metadata of a candidate arrives or fails
FwdCheckResponse(candidate, fetched) ==
    /\ pc = "fwdCheck"
    /\ candidate \in inFlight
    /\ LET sim == IF fetched = "ok" THEN checkBody(similar, pkgDeps, candidate) ELSE similar
           p   == pumpCheck(inFlight \ {candidate}, queued)
       IN  /\ similar' = sim
           /\ inFlight' = p.inFlight
           /\ queued' = p.queued
           /\ IF p.inFlight = {} THEN Return(forwardResults(sim, pkgDeps))
              ELSE UNCHANGED <<pc, callOutcome, results, path>>
    /\ UNCHANGED <<pkg, maxLiveCandidates, indexPresent, timedOut, base, pkgDeps, candidates, scanNext,
                   ev, evalOutcome>>
    /\ UNCHANGED notSim

\* similar.ts 152-234: a timer of the forward check fires, the one of a
\* fetch (180) or the one of the stage (185); the catch of 188 goes on with
\* the candidates found so far
FwdTimeout ==
    /\ pc = "fwdCheck"
    /\ inFlight # {}
    /\ timedOut' = timedOut \cup {"forward"}
    /\ inFlight' = {}
    /\ queued' = <<>>
    /\ Return(forwardResults(similar, pkgDeps))
    /\ UNCHANGED <<pkg, maxLiveCandidates, indexPresent, base, pkgDeps, similar, candidates, scanNext,
                   ev, evalOutcome>>
    /\ UNCHANGED notSim

\* similar.ts 276-317: the batch loop after a fetch of the scan has ended
ScanStep(cands, inF, q) ==
    IF inF # {}
      THEN /\ candidates' = cands
           /\ inFlight' = inF
           /\ queued' = q
           /\ UNCHANGED <<pc, callOutcome, results, path, scanNext, ev>>
    ELSE IF \/ Len(cands) >= EARLY_TERMINATE_CANDIDATES
            \/ scanNext + SCAN_BATCH_SIZE >= Len(baseDependentsOf(base))
      THEN AfterScan(cands, {}, <<>>) /\ UNCHANGED scanNext
    ELSE LET p == pumpScan({}, scanBatch(base, scanNext + SCAN_BATCH_SIZE))
         IN  /\ candidates' = cands
             /\ scanNext' = scanNext + SCAN_BATCH_SIZE
             /\ inFlight' = p.inFlight
             /\ queued' = p.queued
             /\ UNCHANGED <<pc, callOutcome, results, path, ev>>

\* similar.ts 285-301: the metadata of a dependent arrives or fails.  After
\* the scan was abandoned the fetch still ends, and until the snapshot of
\* line 390 its dependencies still join the candidates
ScanResponse(depPkg, fetched) ==
    /\ pc \in {"scan", "idMap", "meta", "shard"}
    /\ depPkg \in inFlight
    /\ LET cands == IF fetched = "ok" THEN addDeps(candidates, metaDeps(depPkg))
                    ELSE candidates
           p     == pumpScan(inFlight \ {depPkg}, queued)
       IN  IF pc = "scan" THEN ScanStep(cands, p.inFlight, p.queued)
           ELSE /\ candidates' = cands
                /\ inFlight' = p.inFlight
                /\ queued' = p.queued
                /\ UNCHANGED <<pc, callOutcome, results, path, scanNext, ev>>
    /\ UNCHANGED <<pkg, maxLiveCandidates, indexPresent, timedOut, base, pkgDeps, similar, evalOutcome>>
    /\ UNCHANGED notSim

\* similar.ts 279-326: a timer of the scan fires, the one of a fetch (303),
\* after which the limiter starts one queued fetch (66-73), or the one of
\* the batch (308); the catch of 318 goes on with the candidates so far
ScanTimeout(timer) ==
    /\ pc = "scan"
    /\ inFlight # {}
    /\ timedOut' = timedOut \cup {"scan"}
    /\ IF timer = "fetch" /\ queued # <<>>
         THEN AfterScan(candidates, inFlight \cup {Head(queued)}, Tail(queued))
         ELSE AfterScan(candidates, inFlight, queued)
    /\ UNCHANGED <<pkg, maxLiveCandidates, indexPresent, base, pkgDeps, similar, scanNext, evalOutcome>>
    /\ UNCHANGED notSim

\* similar.ts 386 with README.md 935-975: one of the three files that
\* getDependentsBitset(pkg) reads has been read, or the read or its
\* JSON.parse has thrown
BitsetFileRead(readOutcome) ==
    /\ pc \in {"idMap", "meta", "shard"}
    /\ IF readOutcome = "throw"
         THEN Throw /\ UNCHANGED <<inFlight, queued, ev>>
       ELSE IF pc = "idMap"
         THEN pc' = "meta" /\ UNCHANGED <<callOutcome, results, path, inFlight, queued, ev>>
       ELSE IF pc = "meta" /\ toLowerCase(pkg) \in DOMAIN idMap
         THEN pc' = "shard" /\ UNCHANGED <<callOutcome, results, path, inFlight, queued, ev>>
       ELSE IF pc = "meta"
         THEN StartEvaluation(candidates, <<>>)
       ELSE StartEvaluation(candidates, bitsetOf(pkg))
    /\ UNCHANGED <<pkg, maxLiveCandidates, indexPresent, timedOut, base, pkgDeps, similar, candidates,
                   scanNext, evalOutcome>>
    /\ UNCHANGED notSim

\* the evaluation record after one of its evaluations has ended
EvaluationStep(e) ==
    /\ ev' = e
    /\ IF e.finished THEN Return(finishResults(e.heap, e.sorted))
       ELSE UNCHANGED <<pc, callOutcome, results, path>>

\* similar.ts 468-495, 526-533: the shard read of a candidate has ended
CandBitsetRead(cand, readOutcome) ==
    /\ pc = "eval"
    /\ cand \in ev.pending
    /\ evalOutcome' = (cand :> readOutcome) @@ evalOutcome
    /\ EvaluationStep(afterEvaluation(
           ioBody([ev EXCEPT !.pending = @ \ {cand}], cand, readOutcome)))
    /\ UNCHANGED <<pkg, maxLiveCandidates, indexPresent, timedOut, base, pkgDeps, similar, candidates,
                   inFlight, queued, scanNext>>
    /\ UNCHANGED notSim

\* similar.ts 488-495, 526-533: the live lookup of a candidate has ended
CandLiveFetched(cand) ==
    /\ pc = "eval"
    /\ cand \in ev.fetching
    /\ EvaluationStep(afterEvaluation(liveFetched(ev, cand)))
    /\ UNCHANGED <<pkg, maxLiveCandidates, indexPresent, timedOut, base, pkgDeps, similar,
                   candidates, inFlight, queued, scanNext, evalOutcome>>
    /\ UNCHANGED notSim

\* similar.ts 514, 66-73, 534-597: the timer of a candidate fires.  The
\* limiter gives the slot to one queued evaluation, then the rejection
\* reaches the catch of the batch loop and the pipeline goes on with the
\* heap as it is
CandTimeout(cand) ==
    /\ pc = "eval"
    /\ cand \in ev.pending
    /\ timedOut' = timedOut \cup {"candidate"}
    /\ LET e1 == [ev EXCEPT !.pending = @ \ {cand}]
           e2 == IF e1.waiting # <<>> THEN startNext(e1) ELSE e1
       IN  EvaluationStep([e2 EXCEPT !.finished = TRUE])
    /\ UNCHANGED <<pkg, maxLiveCandidates, indexPresent, base, pkgDeps, similar, candidates, inFlight,
                   queued, scanNext, evalOutcome>>
    /\ UNCHANGED notSim

\* a call that has not started: the caches are cold (README.md 901-903)
SimInitOptions(q, present, maxLive) ==
    /\ pkg = q
    /\ maxLiveCandidates = maxLive
    /\ indexPresent = present
    /\ pc = "idle"
    /\ callOutcome = "none"
    /\ results = <<>>
    /\ path = "none"
    /\ timedOut = {}
    /\ base = <<>>
    /\ pkgDeps = <<>>
    /\ similar = <<>>
    /\ candidates = <<>>
    /\ inFlight = {}
    /\ queued = <<>>
    /\ scanNext = 0
    /\ ev = noEvaluation
    /\ evalOutcome = <<>>

\* a call without options
SimInit(q, present) == SimInitOptions(q, present, 0)

(***************************************************************************)
(* computeCooccurrence (lib/similar.ts 617-947, 1005-1045).  One call uses *)
(* the variables of the call above for its like-named locals (pkg, base,   *)
(* pkgDeps, the limiter of its stage, the i of its batch loop, the         *)
(* returned list) and two of its own.                                      *)
(***************************************************************************)
COOCCUR_MULTIPLIER_PER_LIMIT      == 10
MAX_PACKAGES_TO_CHECK_COOCCUR     == 200
RELAXED_JACCARD_MINIMUM           == 10000     \* 0.01
MIN_RATIO_COOCCUR_VERY_SMALL_DEPS == 200000    \* 0.2
MIN_RATIO_COOCCUR_SMALL_DEPS      == 100000    \* 0.1
MIN_RATIO_COOCCUR_MEDIUM_DEPS     == 50000     \* 0.05
COOCCUR_MIN_JACCARD_DEFAULT       == 1000      \* 0.001
DIRECT_DEPENDENCY_BOOST_SCORE     == 500000    \* 0.5
COOCCUR_BATCH_SIZE                == 20        \* similar.ts 653
COOCCUR_EARLY_EXIT_PER_LIMIT      == 3         \* similar.ts 652
SMALL_SAMPLE                      == 200       \* similar.ts 724, 727
SMALL_SAMPLE_MIN_JACCARD          == 10000     \* 0.01, similar.ts 725
LARGE_SAMPLE_MIN_JACCARD          == 5000      \* 0.005, similar.ts 726
SMALL_SAMPLE_SHARE                == 100       \* 1 / 0.01, similar.ts 728
CONFIGURED_SAMPLE                 == 500       \* similar.ts 732
COOCCUR_MIN_JACCARD_SMALL_BASE    == 500       \* 0.0005
COOCCUR_MIN_JACCARD_MEDIUM_BASE   == 800       \* 0.0008
BASE_SIZE_LARGE                   == 50
LOW_FETCH_SUCCESS_RATE_THRESHOLD  == 300000    \* 0.3
LOW_FETCH_RATE_JACCARD_MULTIPLIER == 500000    \* 0.5

\* config.ts 199-207
getCooccurForwardDepsRatioThreshold(depsCount) ==
    IF depsCount < DEPS_COUNT_VERY_SMALL THEN MIN_RATIO_COOCCUR_VERY_SMALL_DEPS
    ELSE IF depsCount < DEPS_COUNT_SMALL THEN MIN_RATIO_COOCCUR_SMALL_DEPS
    ELSE MIN_RATIO_COOCCUR_MEDIUM_DEPS

\* Map.set of similar.ts 677: the count of d goes up by one; a new key
\* joins at the end of the insertion order
mapIncrement(co, d) ==
    IF \E i \in DOMAIN co : co[i].name = d
      THEN [i \in DOMAIN co |-> IF co[i].name = d
                                  THEN [co[i] EXCEPT !.count = @ + 1] ELSE co[i]]
      ELSE Append(co, [name |-> d, count |-> 1])

\* Map.set of similar.ts 800, 841: the count of name becomes count
mapSet(co, name, count) ==
    IF \E i \in DOMAIN co : co[i].name = name
      THEN [i \in DOMAIN co |-> IF co[i].name = name
                                  THEN [co[i] EXCEPT !.count = count] ELSE co[i]]
      ELSE Append(co, [name |-> name, count |-> count])

\* similar.ts 652
MIN_COOCCUR_FOR_EARLY_EXIT == limit * COOCCUR_EARLY_EXIT_PER_LIMIT

\* similar.ts 672-684: the dependencies of a dependent are tallied
RECURSIVE tallyDeps(_, _)
tallyDeps(co, deps) ==
    IF deps = <<>> THEN co
    ELSE IF SameName(Head(deps), pkg) THEN tallyDeps(co, Tail(deps))
    ELSE IF Len(mapIncrement(co, Head(deps))) >= MIN_COOCCUR_FOR_EARLY_EXIT
      THEN mapIncrement(co, Head(deps))
    ELSE tallyDeps(mapIncrement(co, Head(deps)), Tail(deps))

\* similar.ts 642-643
cooccurDependents(b) ==
    sliceTo(b, Min2(DEFAULT_MAX_DEPENDENTS_TO_SCAN, MAX_MAX_DEPENDENTS_TO_SCAN))

\* similar.ts 662
cooccurBatch(b, i) ==
    SubSeq(cooccurDependents(b), i + 1,
           Min2(i + COOCCUR_BATCH_SIZE, Len(cooccurDependents(b))))

\* config.ts 209-229; fetched of sampled is the fetchSuccessRate
getCooccurJaccardThreshold(baseSize, fetched, sampled) ==
    LET bySize == IF baseSize < BASE_SIZE_SMALL
                    THEN [minShared |-> MIN_SHARED_SMALL_BASE,
                          minJaccard |-> COOCCUR_MIN_JACCARD_SMALL_BASE]
                  ELSE IF baseSize < BASE_SIZE_LARGE
                    THEN [minShared |-> MIN_SHARED_SMALL_BASE,
                          minJaccard |-> COOCCUR_MIN_JACCARD_MEDIUM_BASE]
                  ELSE [minShared |-> MIN_SHARED_MEDIUM_BASE,
                        minJaccard |-> COOCCUR_MIN_JACCARD_DEFAULT]
        isLowFetchRate == ~ratioAtLeast(fetched, sampled, LOW_FETCH_SUCCESS_RATE_THRESHOLD)
    IN  IF isLowFetchRate
          THEN [minShared |-> Max2(1, bySize.minShared - 1),
                minJaccard |-> (bySize.minJaccard * LOW_FETCH_RATE_JACCARD_MULTIPLIER)
                                   \div ScoreUnit]
          ELSE bySize

\* similar.ts 645, 714-734: the threshold computeCooccurrenceFromReverseDeps
\* filters with, from base.size, baseDependents.length and successfulFetches
cooccurThreshold(size, sampled, fetched) ==
    LET baseSize     == IF size # 0 THEN size ELSE 1
        scannedCount == IF fetched > 0 THEN fetched ELSE sampled
        minJaccardForScanned ==
            IF scannedCount < SMALL_SAMPLE THEN SMALL_SAMPLE_MIN_JACCARD
            ELSE Max2(LARGE_SAMPLE_MIN_JACCARD, COOCCUR_MIN_JACCARD_DEFAULT)
        minSharedForScanned ==
            IF scannedCount < SMALL_SAMPLE
              THEN Max2(1, (scannedCount + SMALL_SAMPLE_SHARE - 1) \div SMALL_SAMPLE_SHARE)
              ELSE 1
    IN  IF scannedCount < CONFIGURED_SAMPLE
          THEN [minShared |-> minSharedForScanned, minJaccard |-> minJaccardForScanned]
          ELSE getCooccurJaccardThreshold(baseSize, fetched, sampled)

\* similar.ts 714-765: the list computeCooccurrenceFromReverseDeps returns
reverseDepsResults(co, fetchedCount) ==
    LET scannedCount == IF fetchedCount > 0 THEN fetchedCount
                        ELSE Len(cooccurDependents(base))
        threshold  == cooccurThreshold(Cardinality(Range(base)),
                                       Len(cooccurDependents(base)), fetchedCount)
        minJaccard == threshold.minJaccard
        minShared  == threshold.minShared
        items   == [i \in DOMAIN co |->
                      [name |-> co[i].name, jaccard |-> toFixed6(co[i].count, scannedCount),
                       sharedDependents |-> co[i].count]]
        coRes   == sliceTo(sortByJaccardDesc(SelectSeq(items, LAMBDA r :
                      r.sharedDependents >= minShared /\ r.jaccard >= minJaccard)), limit)
        relaxed == sliceTo(sortByJaccardDesc(SelectSeq(items, LAMBDA r :
                      r.sharedDependents >= 1 /\ r.jaccard >= RELAXED_JACCARD_VERY_SMALL)),
                      limit)
    IN  IF Len(coRes) = 0 /\ Len(co) > 0 /\ Len(relaxed) > 0
          THEN [results |-> relaxed, path |-> "coRelaxed"]
          ELSE [results |-> coRes, path |-> "coReverse"]

\* similar.ts 1018-1034: the names computeCooccurrenceNameBasedFallback collects
RECURSIVE cooccurNamesScan(_, _)
cooccurNamesScan(i, names) ==
    IF i > Min2(Len(loadPopularPackages), MAX_POPULAR_FOR_NAME_BASED) THEN names
    ELSE LET pop      == loadPopularPackages[i]
             popLower == normalizePackageName(pop)
             lower    == normalizePackageName(pkg)
             names1   == IF nameMatches(popLower, lower) THEN addUnique(names, pop)
                         ELSE names
         IN  IF popLower = lower THEN cooccurNamesScan(i + 1, names)
             ELSE IF Len(names1) >= limit * 2 THEN names1
             ELSE cooccurNamesScan(i + 1, names1)

\* similar.ts 1005-1045
computeCooccurrenceNameBasedFallback ==
    LET names == sliceTo(cooccurNamesScan(1, <<>>), limit)
    IN  [results |-> [i \in DOMAIN names |-> nameBasedItem(names[i])],
         path |-> "coNameFallback"]

\* similar.ts 792-802: the direct dependencies that are popular packages
RECURSIVE directDeps(_, _)
directDeps(co, deps) ==
    IF deps = <<>> THEN co
    ELSE IF normalizePackageName(Head(deps)) \in
              {normalizePackageName(p) : p \in Range(loadPopularPackages)}
      THEN directDeps(mapSet(co, Head(deps), 1), Tail(deps))
    ELSE directDeps(co, Tail(deps))

\* similar.ts 805
cooccurPackagesToCheck ==
    Min2(Len(loadPopularPackages),
         Min2(limit * COOCCUR_MULTIPLIER_PER_LIMIT, MAX_PACKAGES_TO_CHECK_COOCCUR))

\* similar.ts 816-820: a check that returns before it fetches anything
checkSkips(pop, deps) ==
    \/ normalizePackageName(pop) = normalizePackageName(pkg)
    \/ normalizePackageName(pop) \in {normalizePackageName(d) : d \in Range(deps)}

\* the limiter of the check (similar.ts 806, 812-813)
RECURSIVE pumpCooccurCheck(_, _, _)
pumpCooccurCheck(inF, q, deps) ==
    IF q = <<>> \/ Cardinality(inF) >= FORWARD_DEPS_CHECK
      THEN [inFlight |-> inF, queued |-> q]
    ELSE IF checkSkips(Head(q), deps) THEN pumpCooccurCheck(inF, Tail(q), deps)
    ELSE pumpCooccurCheck(inF \cup {Head(q)}, Tail(q), deps)

\* similar.ts 823-843: the metadata of a popular package arrived
cooccurCheckBody(co, deps, pop) ==
    LET pkgDepsSet  == {normalizePackageName(d) : d \in Range(deps)}
        popDepsSet  == {normalizePackageName(d) : d \in Range(metaDeps(pop))}
        sharedCount == Cardinality(pkgDepsSet \cap popDepsSet)
    IN  IF /\ sharedCount > 0
           /\ \A i \in DOMAIN co : co[i].name = pop => co[i].count < sharedCount
          THEN mapSet(co, pop, sharedCount)
          ELSE co

\* similar.ts 866-941: the list computeCooccurrenceFromForwardDeps returns;
\* directScore is the boosted score of 876-878
directScore_Mutant(count, totalDeps) == toFixed6(count, totalDeps)
directScore(count, totalDeps) ==
    Max2(toFixed6(count, totalDeps), DIRECT_DEPENDENCY_BOOST_SCORE)

forwardDepsResults(co, deps) ==
    LET totalDeps  == Len(deps)
        pkgDepsSet == {normalizePackageName(d) : d \in Range(deps)}
        isDirect(name) == normalizePackageName(name) \in pkgDepsSet
        items   == [i \in DOMAIN co |->
                      [name |-> co[i].name,
                       jaccard |-> IF isDirect(co[i].name)
                                     THEN directScore(co[i].count, totalDeps)
                                     ELSE toFixed6(co[i].count, totalDeps),
                       sharedDependents |-> co[i].count]]
        kept    == SelectSeq(items, LAMBDA r :
                      \/ isDirect(r.name)
                      \/ /\ r.sharedDependents >= 1
                         /\ r.jaccard >= getCooccurForwardDepsRatioThreshold(totalDeps))
        rank(r) == 0 - (r.sharedDependents * (ScoreUnit + 1) + r.jaccard)
        direct  == SelectSeq(kept, LAMBDA r : isDirect(r.name))
        others  == SelectSeq(kept, LAMBDA r : ~isDirect(r.name))
        coRes   == sliceTo(stableSortBy(direct, [i \in DOMAIN direct |-> rank(direct[i])])
                           \o stableSortBy(others, [i \in DOMAIN others |-> rank(others[i])]),
                           limit)
        plain   == [i \in DOMAIN co |->
                      [name |-> co[i].name, jaccard |-> toFixed6(co[i].count, totalDeps),
                       sharedDependents |-> co[i].count]]
        loose   == SelectSeq(plain, LAMBDA r :
                      r.sharedDependents >= 1 /\ r.jaccard >= RELAXED_JACCARD_MINIMUM)
        relaxed == sliceTo(stableSortBy(loose, [i \in DOMAIN loose |-> rank(loose[i])]), limit)
    IN  IF totalDeps = 0 THEN computeCooccurrenceNameBasedFallback
        ELSE IF Len(coRes) > 0 THEN [results |-> coRes, path |-> "coForward"]
        ELSE IF Len(relaxed) > 0 THEN [results |-> relaxed, path |-> "coForwardRelaxed"]
        ELSE computeCooccurrenceNameBasedFallback

\* ---- the handlers of one call computeCooccurrence(pkg, limit)
\* similar.ts 617-670, 776: the call up to its first wait
CoCall ==
    /\ pc = "idle"
    /\ base' = getReverseDeps(pkg)
    /\ IF Len(getReverseDeps(pkg)) > 0
         THEN LET p == pumpScan({}, cooccurBatch(getReverseDeps(pkg), 0))
              IN  /\ pc' = "coScan"
                  /\ inFlight' = p.inFlight
                  /\ queued' = p.queued
         ELSE /\ pc' = "coMeta"
              /\ UNCHANGED <<inFlight, queued>>
    /\ UNCHANGED <<pkg, maxLiveCandidates, indexPresent, callOutcome, results, path, timedOut, pkgDeps,
                   similar, candidates, scanNext, ev, evalOutcome>>
    /\ UNCHANGED coVars
    /\ UNCHANGED notCo

\* similar.ts 661-702, 714-765: the metadata of a dependent arrives or fails
CoScanResponse(depPkg, fetched) ==
    /\ pc = "coScan"
    /\ depPkg \in inFlight
    /\ LET co    == IF fetched = "ok" THEN tallyDeps(cooccur, metaDeps(depPkg))
                    ELSE cooccur
           count == IF fetched = "ok" THEN successfulFetches + 1 ELSE successfulFetches
           p     == pumpScan(inFlight \ {depPkg}, queued)
       IN  /\ cooccur' = co
           /\ successfulFetches' = count
           /\ fetchedDependents' = IF fetched = "ok" THEN fetchedDependents \cup {depPkg}
                                   ELSE fetchedDependents
           /\ IF p.inFlight # {}
                THEN /\ inFlight' = p.inFlight
                     /\ queued' = p.queued
                     /\ UNCHANGED <<pc, callOutcome, results, path, scanNext>>
              ELSE IF \/ Len(co) >= MIN_COOCCUR_FOR_EARLY_EXIT
                      \/ scanNext + COOCCUR_BATCH_SIZE >= Len(cooccurDependents(base))
                THEN /\ inFlight' = {}
                     /\ queued' = <<>>
                     /\ Return(reverseDepsResults(co, count))
                     /\ UNCHANGED scanNext
              ELSE LET n == pumpScan({}, cooccurBatch(base, scanNext + COOCCUR_BATCH_SIZE))
                   IN  /\ scanNext' = scanNext + COOCCUR_BATCH_SIZE
                       /\ inFlight' = n.inFlight
                       /\ queued' = n.queued
                       /\ UNCHANGED <<pc, callOutcome, results, path>>
    /\ UNCHANGED <<pkg, maxLiveCandidates, indexPresent, timedOut, base, pkgDeps, similar, candidates,
                   ev, evalOutcome>>
    /\ UNCHANGED notCo

\* similar.ts 664-711: a timer of the scan fires, the one of a fetch (689)
\* or the one of the batch (694); the catch of 704 goes on to the results
\* with the co-occurrences counted so far
CoScanTimeout ==
    /\ pc = "coScan"
    /\ inFlight # {}
    /\ timedOut' = timedOut \cup {"cooccur"}
    /\ inFlight' = {}
    /\ queued' = <<>>
    /\ Return(reverseDepsResults(cooccur, successfulFetches))
    /\ UNCHANGED <<pkg, maxLiveCandidates, indexPresent, base, pkgDeps, similar, candidates, scanNext,
                   ev, evalOutcome>>
    /\ UNCHANGED coVars
    /\ UNCHANGED notCo

\* similar.ts 776-823, 943-945: the metadata of the query arrives or fails
CoMetaResponse(fetched) ==
    /\ pc = "coMeta"
    /\ LET deps == IF fetched = "ok" THEN metaDeps(pkg) ELSE <<>>
           co   == directDeps(<<>>, deps)
           p    == pumpCooccurCheck({}, sliceTo(loadPopularPackages, cooccurPackagesToCheck),
                                    deps)
       IN  /\ pkgDeps' = deps
           /\ IF Len(deps) = 0
                THEN /\ Return(computeCooccurrenceNameBasedFallback)
                     /\ UNCHANGED <<inFlight, queued, cooccur>>
              ELSE IF p.inFlight = {}
                THEN /\ Return(forwardDepsResults(co, deps))
                     /\ cooccur' = co
                     /\ UNCHANGED <<inFlight, queued>>
              ELSE /\ pc' = "coCheck"
                   /\ cooccur' = co
                   /\ inFlight' = p.inFlight
                   /\ queued' = p.queued
                   /\ UNCHANGED <<callOutcome, results, path>>
    /\ UNCHANGED <<pkg, maxLiveCandidates, indexPresent, timedOut, base, similar, candidates, scanNext,
                   ev, evalOutcome, successfulFetches, fetchedDependents>>
    /\ UNCHANGED notCo

\* similar.ts 823-855, 866-941: the metadata of a popular package arrives
\* or fails
CoCheckResponse(pop, fetched) ==
    /\ pc = "coCheck"
    /\ pop \in inFlight
    /\ LET co == IF fetched = "ok" THEN cooccurCheckBody(cooccur, pkgDeps, pop)
                 ELSE cooccur
           p  == pumpCooccurCheck(inFlight \ {pop}, queued, pkgDeps)
       IN  /\ cooccur' = co
           /\ inFlight' = p.inFlight
           /\ queued' = p.queued
           /\ IF p.inFlight = {} THEN Return(forwardDepsResults(co, pkgDeps))
              ELSE UNCHANGED <<pc, callOutcome, results, path>>
    /\ UNCHANGED <<pkg, maxLiveCandidates, indexPresent, timedOut, base, pkgDeps, similar, candidates,
                   scanNext, ev, evalOutcome, successfulFetches, fetchedDependents>>
    /\ UNCHANGED notCo

\* similar.ts 811-863: a timer of the check fires, the one of a package
\* (848) or the one of the stage (853); the catch of 856 goes on to the
\* results with the candidates found so far
CoCheckTimeout ==
    /\ pc = "coCheck"
    /\ inFlight # {}
    /\ timedOut' = timedOut \cup {"cooccurCheck"}
    /\ inFlight' = {}
    /\ queued' = <<>>
    /\ Return(forwardDepsResults(cooccur, pkgDeps))
    /\ UNCHANGED <<pkg, maxLiveCandidates, indexPresent, base, pkgDeps, similar, candidates, scanNext,
                   ev, evalOutcome>>
    /\ UNCHANGED coVars
    /\ UNCHANGED notCo

CoInit ==
    /\ cooccur = <<>>
    /\ successfulFetches = 0
    /\ fetchedDependents = {}

(***************************************************************************)
(* jaccardSimilarity (lib/jaccard.ts, listed in pypi-stats.ts 155-210) and *)
(* canMeetThreshold (similar.ts 88-103) on their own.  A Set<string> is    *)
(* the sequence of its elements in insertion order; an element is the      *)
(* rank of the string in the order of UTF-16 code units, which is the      *)
(* order of both Array.prototype.sort() and the operator <.                *)
(***************************************************************************)
THRESHOLD == 100        \* pypi-stats.ts 205
Strides   == {1, 2}

\* the sets the functions are applied to: arithmetic progressions, below
\* and above the switch between the two algorithms
SetLengths == (0..SmallLen) \cup ((THRESHOLD - BigSpan)..(THRESHOLD + BigSpan))
ascending(first, stride, len)  == [i \in 1..len |-> first + stride * (i - 1)]
descending(first, stride, len) == [i \in 1..len |-> first + stride * (len - i)]
MinJaccards == {1, 10000, 500000, ScoreUnit, ScoreUnit + 1}

\* Array.prototype.sort() on the distinct strings of a set gives their
\* ascending arrangement; it is computed here by merging.  One turn of a
\* merge moves the smaller head to out
mergeStep(x, y, st) ==
    IF st.i > Len(x) /\ st.j > Len(y) THEN st
    ELSE IF st.j > Len(y) \/ (st.i <= Len(x) /\ x[st.i] <= y[st.j])
      THEN [i |-> st.i + 1, j |-> st.j, out |-> Append(st.out, x[st.i])]
    ELSE [i |-> st.i, j |-> st.j + 1, out |-> Append(st.out, y[st.j])]

RECURSIVE mergeTurns(_, _, _, _)
mergeTurns(x, y, st, n) ==
    IF n = 0 THEN st
    ELSE IF n = 1 THEN mergeStep(x, y, st)
    ELSE LET half == mergeTurns(x, y, st, n \div 2)
         IN  IF half.i >= 1 THEN mergeTurns(x, y, half, n - n \div 2) ELSE half

RECURSIVE sortStrings(_)
sortStrings(s) ==
    IF Len(s) <= 1 THEN s
    ELSE LET x == sortStrings(SubSeq(s, 1, Len(s) \div 2))
             y == sortStrings(SubSeq(s, Len(s) \div 2 + 1, Len(s)))
         IN  IF Len(x) + Len(y) = Len(s)
               THEN mergeTurns(x, y, [i |-> 1, j |-> 1, out |-> <<>>], Len(s)).out
               ELSE s

\* pypi-stats.ts 173-183: one turn of the while loop; st holds i, j (from
\* 1) and shared, and a loop that has ended stays as it is
twoPointerStep(arrA, arrB, st) ==
    IF st.i > Len(arrA) \/ st.j > Len(arrB) THEN st
    ELSE IF arrA[st.i] = arrB[st.j]
      THEN [i |-> st.i + 1, j |-> st.j + 1, shared |-> st.shared + 1]
    ELSE IF arrA[st.i] < arrB[st.j] THEN [st EXCEPT !.i = @ + 1]
    ELSE [st EXCEPT !.j = @ + 1]

\* n turns of the loop
RECURSIVE twoPointerTurns(_, _, _, _)
twoPointerTurns(arrA, arrB, st, n) ==
    IF n = 0 THEN st
    ELSE IF n = 1 THEN twoPointerStep(arrA, arrB, st)
    ELSE LET half == twoPointerTurns(arrA, arrB, st, n \div 2)
         IN  IF half.i >= 1 THEN twoPointerTurns(arrA, arrB, half, n - n \div 2)
             ELSE half

\* pypi-stats.ts 169-183: the loop ends within arrA.length + arrB.length turns
twoPointer(arrA, arrB) ==
    twoPointerTurns(arrA, arrB, [i |-> 1, j |-> 1, shared |-> 0],
                    Len(arrA) + Len(arrB)).shared

\* the JaccardResult of shared and unionSize; the quotient score is held as
\* numerator and denominator (pypi-stats.ts 185-187, 196-198)
jaccardResult(shared, unionSize) ==
    [score |-> IF unionSize > 0 THEN <<shared, unionSize>> ELSE <<0, 1>>,
     shared |-> shared, unionSize |-> unionSize]

\* pypi-stats.ts 165-188
jaccardSimilarityOptimized_Mutant(a, b) ==
    LET shared == twoPointer(a, b)
    IN  jaccardResult(shared, Len(a) + Len(b) - shared)
jaccardSimilarityOptimized(a, b) ==
    LET shared == twoPointer(sortStrings(a), sortStrings(b))
    IN  jaccardResult(shared, Len(a) + Len(b) - shared)

\* pypi-stats.ts 193-195: a.forEach over the elements from lo to hi
RECURSIVE countShared(_, _, _, _)
countShared(a, b, lo, hi) ==
    IF lo > hi THEN 0
    ELSE IF lo = hi THEN (IF a[lo] \in b THEN 1 ELSE 0)
    ELSE countShared(a, b, lo, (lo + hi) \div 2)
         + countShared(a, b, (lo + hi) \div 2 + 1, hi)

\* pypi-stats.ts 191-199
jaccardSimilarityStandard(a, b) ==
    LET shared == countShared(a, Range(b), 1, Len(a))
    IN  jaccardResult(shared, Len(a) + Len(b) - shared)

\* pypi-stats.ts 202-210: jaccardSimilarity as it chooses its algorithm;
\* the operator jaccardSimilarity above is its result on sets of names
jaccardSimilarityBySize(a, b) ==
    IF Len(a) < THRESHOLD /\ Len(b) < THRESHOLD THEN jaccardSimilarityStandard(a, b)
    ELSE jaccardSimilarityOptimized(a, b)

\* a call of jaccardSimilarity with the sets in both orders
JaccardCall ==
    /\ jpc = "input"
    /\ jpc' = "scored"
    /\ jResult' = jaccardSimilarityBySize(setA, setB)
    /\ jSwapped' = jaccardSimilarityBySize(setB, setA)
    /\ UNCHANGED <<setA, setB, jThreshold, canMeet>>
    /\ UNCHANGED notJac

\* similar.ts 499-502: the pre-filter of a candidate set against a base set
\* with the threshold t
CanMeetCall(t) ==
    /\ jpc = "scored"
    /\ jpc' = "filtered"
    /\ jThreshold' = t
    /\ canMeet' = canMeetThreshold(Len(setA), Len(setB), t)
    /\ UNCHANGED <<setA, setB, jResult, jSwapped>>
    /\ UNCHANGED notJac

\* the sets a and b of one call
JacInputs(a, b) ==
    /\ setA = a
    /\ setB = b
    /\ jpc = "input"
    /\ jResult = jaccardResult(0, 0)
    /\ jSwapped = jaccardResult(0, 0)
    /\ jThreshold = 0
    /\ canMeet = FALSE

JacInit == JacInputs(<<>>, <<>>)

(***************************************************************************)
(* The threshold selection of computeCooccurrenceFromReverseDeps           *)
(* (similar.ts 714-734) on its own, for two numbers of successful fetches  *)
(* out of the same sample of the same base.                                *)
(***************************************************************************)
LimitsOfSample == {1, SMALL_SAMPLE - 1, SMALL_SAMPLE, CONFIGURED_SAMPLE - 1, CONFIGURED_SAMPLE}
SampleSizes == {2, DEFAULT_MAX_DEPENDENTS_TO_SCAN, 300, 450, MAX_MAX_DEPENDENTS_TO_SCAN}
BaseSizesOf(sampled) == {sampled, sampled + BASE_SIZE_LARGE}
FetchCounts(sampled) ==
    {f \in 0..sampled : \E b \in LimitsOfSample : f <= b /\ b <= f + NearSpan}

noThreshold == [minShared |-> 0, minJaccard |-> 0]

\* similar.ts 714-734 for the smaller number of successful fetches
ThresholdFewer ==
    /\ thpc = "input"
    /\ thpc' = "first"
    /\ thresholdFewer' = cooccurThreshold(thBase, thSampled, thFewer)
    /\ UNCHANGED <<thBase, thSampled, thFewer, thMore, thresholdMore>>
    /\ UNCHANGED notTh

\* similar.ts 714-734 for the larger number of successful fetches
ThresholdMore ==
    /\ thpc = "first"
    /\ thpc' = "second"
    /\ thresholdMore' = cooccurThreshold(thBase, thSampled, thMore)
    /\ UNCHANGED <<thBase, thSampled, thFewer, thMore, thresholdFewer>>
    /\ UNCHANGED notTh

ThInputs(size, sampled, fewer, more) ==
    /\ thBase = size
    /\ thSampled = sampled
    /\ thFewer = fewer
    /\ thMore = more
    /\ thpc = "input"
    /\ thresholdFewer = noThreshold
    /\ thresholdMore = noThreshold

ThInit == ThInputs(1, 1, 0, 1)

(***************************************************************************)
(* fetchDownloadStats (lib/pypi-stats.ts 43-123): one call with a cold     *)
(* cache.  A timer of the backoff is one step of its own.                  *)
(***************************************************************************)
(* The weekly update (scripts/weekly-data-update.ts).  Every updater is a  *)
(* process of its own; one action is one call of the file system made by   *)
(* one of them.  writeFileSync opens the file, which creates or truncates  *)
(* it, and writes the data in a second call; the content of the lock file  *)
(* is <<>> in between, and fds are the processes that hold it open.  A     *)
(* data file is named as in filesToSwap; its content is "old" (of the last *)
(* update), "new" (of this one) or "absent".                               *)
(***************************************************************************)
LOCK_TIMEOUT_MS == 86400000

Updaters == 1..MaxUpdaters

\* 570-583 filesToSwap: 6 metadata files and 28 shards; two of them are kept
filesToSwap == <<"popular.json", "reverseDeps-a.json">>
SwapFiles == Range(filesToSwap)

\* the clock values of a run
UpdClockEnd == UpdClockStart + MaxUpdTicks * UpdTick

\* no file at the path of the lock
NoLock == [present |-> FALSE, content |-> <<>>, fds |-> {}]

\* a lock file left behind by a run that ended without releaseLock, stale or not
LeftLocks ==
    {[present |-> TRUE, content |-> <<[timestamp |-> t, pid |-> 0]>>, fds |-> {}] :
        t \in {UpdClockStart - LOCK_TIMEOUT_MS - 1, UpdClockStart}}

IdleUpdater == [pc |-> "idle", stamp |-> 0, idx |-> 0]

\* the updater is between acquireLock() = true and releaseLock()
SwapPcs == {"swTemp", "swProd", "swBackup", "swUnlink", "swMove", "swRename"}
InUpdate(p) == updater[p].pc \in {"steps", "cleanup"} \cup SwapPcs

At2(p, next) == [updater EXCEPT ![p].pc = next]

\* 75: existsSync(LOCK_FILE)
LockExists(p) ==
    /\ updater[p].pc = "idle"
    /\ updater' = At2(p, IF lockFile.present THEN "read" ELSE "open")
    /\ UNCHANGED <<lockFile, wallClock, prodFiles, tempFiles, backupFiles, prodBefore>>
    /\ UNCHANGED notUpd

\* 77-90: readFileSync and JSON.parse of the lock file, then the age test;
\* a missing or unparsable file goes to the catch of 91
LockRead(p) ==
    /\ updater[p].pc = "read"
    /\ updater' = At2(p,
          IF ~lockFile.present THEN "unlinkCorrupt"
          ELSE IF lockFile.content = <<>> THEN "unlinkCorrupt"
          ELSE IF wallClock - lockFile.content[1].timestamp > LOCK_TIMEOUT_MS THEN "unlinkStale"
          ELSE "refused")
    /\ UNCHANGED <<lockFile, wallClock, prodFiles, tempFiles, backupFiles, prodBefore>>
    /\ UNCHANGED notUpd

\* 84: unlinkSync(LOCK_FILE) of a stale lock; its throw goes to the catch of 91
LockUnlinkStale(p) ==
    /\ updater[p].pc = "unlinkStale"
    /\ IF ~lockFile.present
         THEN updater' = At2(p, "unlinkCorrupt") /\ UNCHANGED lockFile
         ELSE updater' = At2(p, "open") /\ lockFile' = NoLock
    /\ UNCHANGED <<wallClock, prodFiles, tempFiles, backupFiles, prodBefore>>
    /\ UNCHANGED notUpd

\* 93: unlinkSync(LOCK_FILE) in the catch; its throw leaves acquireLock and main
LockUnlinkCorrupt(p) ==
    /\ updater[p].pc = "unlinkCorrupt"
    /\ IF ~lockFile.present
         THEN updater' = At2(p, "crashed") /\ UNCHANGED lockFile
         ELSE updater' = At2(p, "open") /\ lockFile' = NoLock
    /\ UNCHANGED <<wallClock, prodFiles, tempFiles, backupFiles, prodBefore>>
    /\ UNCHANGED notUpd

\* 98-102: writeFileSync(LOCK_FILE, ...) opens the file with flag "w"; 104-107
\* when the open fails
LockOpen(p, outcome) ==
    /\ updater[p].pc = "open"
    /\ IF outcome = "ok"
         THEN /\ lockFile' = [present |-> TRUE, content |-> <<>>,
                              fds |-> lockFile.fds \cup {p}]
              /\ updater' = [updater EXCEPT ![p].pc = "write", ![p].stamp = wallClock]
         ELSE /\ updater' = At2(p, "refused")
              /\ UNCHANGED lockFile
    /\ UNCHANGED <<wallClock, prodFiles, tempFiles, backupFiles, prodBefore>>
    /\ UNCHANGED notUpd

\* 98-103: the data is written through the descriptor, to the file at the
\* path if that is still the file that was opened; acquireLock returns true
LockWrite(p) ==
    /\ updater[p].pc = "write"
    /\ IF lockFile.present /\ p \in lockFile.fds
         THEN lockFile' = [present |-> TRUE,
                           content |-> <<[timestamp |-> updater[p].stamp, pid |-> p]>>,
                           fds |-> lockFile.fds \ {p}]
         ELSE UNCHANGED lockFile
    /\ updater' = At2(p, "steps")
    /\ UNCHANGED <<wallClock, prodFiles, tempFiles, backupFiles, prodBefore>>
    /\ UNCHANGED notUpd

\* 666-683: steps 1 to 3 write every temp file (376-409, 547-549); 695-701
\* when a step throws: process.exit(1) in the catch, the finally is not run
UpdateSteps(p, outcome) ==
    /\ updater[p].pc = "steps"
    /\ IF outcome = "ok"
         THEN /\ tempFiles' = [f \in SwapFiles |-> "new"]
              /\ updater' = [updater EXCEPT ![p].pc = "swTemp", ![p].idx = 1]
         ELSE /\ updater' = At2(p, "failed")
              /\ UNCHANGED tempFiles
    /\ UNCHANGED <<lockFile, wallClock, prodFiles, backupFiles, prodBefore>>
    /\ UNCHANGED notUpd

\* 590: the loop goes on with the next file, or 625 with the cleanup
nextFile(p) ==
    IF updater[p].idx < Len(filesToSwap)
      THEN [updater EXCEPT ![p].pc = "swTemp", ![p].idx = @ + 1]
      ELSE [updater EXCEPT ![p].pc = "cleanup", ![p].idx = 0]

fileOf(p) == filesToSwap[updater[p].idx]

\* 594, 617-620: existsSync(tempPath)
SwapTempExists(p) ==
    /\ updater[p].pc = "swTemp"
    /\ updater' = IF tempFiles[fileOf(p)] # "absent" THEN At2(p, "swProd") ELSE nextFile(p)
    /\ UNCHANGED <<lockFile, wallClock, prodFiles, tempFiles, backupFiles, prodBefore>>
    /\ UNCHANGED notUpd

\* 598: existsSync(prodPath)
SwapProdExists(p) ==
    /\ updater[p].pc = "swProd"
    /\ updater' = At2(p, IF prodFiles[fileOf(p)] # "absent" THEN "swBackup" ELSE "swRename")
    /\ UNCHANGED <<lockFile, wallClock, prodFiles, tempFiles, backupFiles, prodBefore>>
    /\ UNCHANGED notUpd

\* 602: existsSync(backupPath)
SwapBackupExists(p) ==
    /\ updater[p].pc = "swBackup"
    /\ updater' = At2(p, IF backupFiles[fileOf(p)] # "absent" THEN "swUnlink" ELSE "swMove")
    /\ UNCHANGED <<lockFile, wallClock, prodFiles, tempFiles, backupFiles, prodBefore>>
    /\ UNCHANGED notUpd

\* 603: unlinkSync(backupPath); 606-608 its throw skips the backup
SwapUnlinkBackup(p) ==
    /\ updater[p].pc = "swUnlink"
    /\ IF backupFiles[fileOf(p)] = "absent"
         THEN updater' = At2(p, "swRename") /\ UNCHANGED backupFiles
         ELSE /\ updater' = At2(p, "swMove")
              /\ backupFiles' = [backupFiles EXCEPT ![fileOf(p)] = "absent"]
    /\ UNCHANGED <<lockFile, wallClock, prodFiles, tempFiles, prodBefore>>
    /\ UNCHANGED notUpd

\* 605: renameSync(prodPath, backupPath); 606-608 its throw is ignored
SwapMoveToBackup(p) ==
    /\ updater[p].pc = "swMove"
    /\ IF prodFiles[fileOf(p)] = "absent"
         THEN UNCHANGED <<prodFiles, backupFiles>>
         ELSE /\ backupFiles' = [backupFiles EXCEPT ![fileOf(p)] = prodFiles[fileOf(p)]]
              /\ prodFiles' = [prodFiles EXCEPT ![fileOf(p)] = "absent"]
    /\ updater' = At2(p, "swRename")
    /\ UNCHANGED <<lockFile, wallClock, tempFiles, prodBefore>>
    /\ UNCHANGED notUpd

\* 612: renameSync(tempPath, prodPath); 615-617 its throw is logged
SwapRename(p) ==
    /\ updater[p].pc = "swRename"
    /\ IF tempFiles[fileOf(p)] = "absent"
         THEN UNCHANGED <<prodFiles, tempFiles>>
         ELSE /\ prodFiles' = [prodFiles EXCEPT ![fileOf(p)] = tempFiles[fileOf(p)]]
              /\ tempFiles' = [tempFiles EXCEPT ![fileOf(p)] = "absent"]
    /\ updater' = nextFile(p)
    /\ UNCHANGED <<lockFile, wallClock, backupFiles, prodBefore>>
    /\ UNCHANGED notUpd

\* 625-642: the backups older than seven days are removed
SwapCleanup(p, removed) ==
    /\ updater[p].pc = "cleanup"
    /\ removed \subseteq {f \in SwapFiles : backupFiles[f] # "absent"}
    /\ backupFiles' = [f \in SwapFiles |-> IF f \in removed THEN "absent" ELSE backupFiles[f]]
    /\ updater' = At2(p, "relCheck")
    /\ UNCHANGED <<lockFile, wallClock, prodFiles, tempFiles, prodBefore>>
    /\ UNCHANGED notUpd

\* 112: existsSync(LOCK_FILE) of releaseLock, called by the finally of 702-704
ReleaseExists(p) ==
    /\ updater[p].pc = "relCheck"
    /\ updater' = At2(p, IF lockFile.present THEN "relUnlink" ELSE "exited")
    /\ UNCHANGED <<lockFile, wallClock, prodFiles, tempFiles, backupFiles, prodBefore>>
    /\ UNCHANGED notUpd

\* 113: unlinkSync(LOCK_FILE); 115-117 its throw is ignored
ReleaseUnlink(p) ==
    /\ updater[p].pc = "relUnlink"
    /\ lockFile' = NoLock
    /\ updater' = At2(p, "exited")
    /\ UNCHANGED <<wallClock, prodFiles, tempFiles, backupFiles, prodBefore>>
    /\ UNCHANGED notUpd

\* Date.now() moves on
UpdTickClock ==
    /\ wallClock + UpdTick <= UpdClockEnd
    /\ wallClock' = wallClock + UpdTick
    /\ UNCHANGED <<lockFile, updater, prodFiles, tempFiles, backupFiles, prodBefore>>
    /\ UNCHANGED notUpd

\* the data directory before the updaters start: lock is the lock file,
\* before the production files of the last update
UpdInputs(lock, before) ==
    /\ lockFile = lock
    /\ updater = [p \in Updaters |-> IdleUpdater]
    /\ wallClock = UpdClockStart
    /\ prodFiles = [f \in SwapFiles |-> IF f \in before THEN "old" ELSE "absent"]
    /\ tempFiles = [f \in SwapFiles |-> "absent"]
    /\ backupFiles = [f \in SwapFiles |-> "absent"]
    /\ prodBefore = before

UpdInit == UpdInputs(NoLock, {})

(***************************************************************************)
(* jaccardBitset and intersectCount (lib/jaccardBitset.ts) on their own.   *)
(* A Uint32Array is a sequence of naturals.                                *)
(***************************************************************************)
\* jaccardBitset.ts 22-41
intersectCount(a, b) ==
    IF Len(a) = 0 \/ Len(b) = 0 THEN 0 ELSE bitsetInter(a, b, 1, 1)

\* the strictly increasing array that holds the ids of S
sortedIds(S) ==
    [i \in 1..Cardinality(S) |-> CHOOSE x \in S : Cardinality({y \in S : y < x}) = i - 1]

\* a call jaccardBitset(a, b)
BitsetCall ==
    /\ bpc = "input"
    /\ bpc' = "scored"
    /\ bitsetScore' = jaccardBitset(bitA, bitB)
    /\ UNCHANGED <<bitA, bitB, bitsetCount>>
    /\ UNCHANGED notBit

\* a call intersectCount(a, b)
IntersectCall ==
    /\ bpc = "scored"
    /\ bpc' = "counted"
    /\ bitsetCount' = intersectCount(bitA, bitB)
    /\ UNCHANGED <<bitA, bitB, bitsetScore>>
    /\ UNCHANGED notBit

\* the arrays a and b of the calls
BitInputs(a, b) ==
    /\ bitA = a
    /\ bitB = b
    /\ bpc = "input"
    /\ bitsetScore = [inter |-> 0, unionSize |-> 0]
    /\ bitsetCount = 0

BitInit == BitInputs(<<>>, <<>>)

(***************************************************************************)
(* normalizePackageName on its own: the name is normalized, and the result *)
(* is normalized again.                                                    *)
(***************************************************************************)
\* the characters of the names: letters of both cases, a digit, the three
\* separators
NameChars == {"A", "B", "H", "a", "b", "h", "1", "-", "_", "."}

Names == UNION {[1..n -> NameChars] : n \in 0..MaxNameLen}

\* a call normalizePackageName(name)
NormalizeCall ==
    /\ npc = "input"
    /\ npc' = "once"
    /\ normOnce' = normalizePackageName(rawName)
    /\ UNCHANGED <<rawName, normTwice>>
    /\ UNCHANGED notNorm

\* a call normalizePackageName on the result of the first call
NormalizeAgain ==
    /\ npc = "once"
    /\ npc' = "twice"
    /\ normTwice' = normalizePackageName(normOnce)
    /\ UNCHANGED <<rawName, normOnce>>
    /\ UNCHANGED notNorm

NormInputs(name) ==
    /\ rawName = name
    /\ npc = "input"
    /\ normOnce = <<>>
    /\ normTwice = <<>>

NormInit == NormInputs(<<>>)

(***************************************************************************)
(* options.restrictToPeerGroup of one computeSimilarOnDemand call          *)
(* (similar.ts 122, 245).  Every call made in the repository passes false. *)
(***************************************************************************)
OptInit == restrictToPeerGroup = FALSE

(***************************************************************************)
STATS_MAX_RETRY_ATTEMPTS == 3       \* config.ts 272

\* what comes back for one attempt: a response, or an error that fetch throws
StatsResponses ==
    {"ok", "http404", "http429or5xx", "http4xx", "retryableError", "otherError"}

\* pypi-stats.ts 102-105: the codes and words the catch retries on
statsShouldRetry(resp) == resp = "retryableError"

\* pypi-stats.ts 109, 122: what the call completes with when it gives up
statsGiveUp_Mutant == "threw"
statsGiveUp == "null"

\* pypi-stats.ts 43-60: the call up to its first request
StatsCall ==
    /\ statsFetch.pc = "idle"
    /\ statsFetch' = IF 0 < STATS_MAX_RETRY_ATTEMPTS
                       THEN [statsFetch EXCEPT !.pc = "inflight", !.attempt = 1]
                       ELSE [statsFetch EXCEPT !.pc = "done", !.result = statsGiveUp]
    /\ UNCHANGED notStats

\* pypi-stats.ts 60-115: the answer to one attempt
StatsResponse(resp) ==
    /\ statsFetch.pc = "inflight"
    /\ statsFetch' =
          IF resp = "ok"
            THEN [statsFetch EXCEPT !.pc = "done", !.last = resp, !.result = "stats"]
          ELSE IF resp = "http404"
            THEN [statsFetch EXCEPT !.pc = "done", !.last = resp, !.result = "null"]
          ELSE IF resp = "http429or5xx" /\ statsFetch.attempt < STATS_MAX_RETRY_ATTEMPTS
            THEN [statsFetch EXCEPT !.pc = "backoff", !.last = resp]
          ELSE IF resp \in {"http429or5xx", "http4xx"}
            THEN [statsFetch EXCEPT !.pc = "done", !.last = resp, !.result = "null"]
          ELSE IF statsShouldRetry(resp) /\ statsFetch.attempt < STATS_MAX_RETRY_ATTEMPTS
            THEN [statsFetch EXCEPT !.pc = "backoff", !.last = resp]
          ELSE [statsFetch EXCEPT !.pc = "done", !.last = resp, !.result = statsGiveUp]
    /\ UNCHANGED notStats

\* pypi-stats.ts 73-75, 113-114, 56-60: the backoff timer fires and the
\* loop sends the next request, or leaves when the attempts are used up
StatsBackoffWake ==
    /\ statsFetch.pc = "backoff"
    /\ statsFetch' = IF statsFetch.attempt < STATS_MAX_RETRY_ATTEMPTS
                       THEN [statsFetch EXCEPT !.pc = "inflight", !.attempt = @ + 1]
                       ELSE [statsFetch EXCEPT !.pc = "done", !.result = statsGiveUp]
    /\ UNCHANGED notStats

StatsInit ==
    statsFetch = [pc |-> "idle", attempt |-> 0, last |-> "none", result |-> "none"]

\* the clock moves to the next timer of fetchJsonWithCache that is pending
TimerDue ==
    /\ \E t \in {w \in PendingWakes : w > now} :
          /\ \A w \in PendingWakes : t <= w
          /\ now' = t
    /\ UNCHANGED <<lastRequestTime, lru, fetcher, dispatched, notRate>>

(***************************************************************************)
(* Initial states.  Each component has an initial state of its own and a   *)
(* resting state that the other specifications keep it in.                 *)
(***************************************************************************)
LimiterInit(n) ==
    /\ concurrency = n
    /\ running = 0
    /\ queue = <<>>
    /\ taskState = [t \in Tasks |-> "new"]
    /\ startOrder = <<>>
    /\ queuedOrder = <<>>

HeapInit(k) ==
    /\ limit = k
    /\ heap = <<>>
    /\ pushed = <<>>

(***************************************************************************)
(* SpecLimiter: one limiter, MaxTasks submissions, any settle order.       *)
(***************************************************************************)
InitLimiter ==
    /\ \E n \in 1..MaxConcurrency : LimiterInit(n)
    /\ HeapInit(0) /\ RateInit /\ ShardInit({}, {}) /\ SimInit(<<>>, FALSE) /\ StatsInit /\ CoInit /\ JacInit /\ ThInit /\ UpdInit /\ BitInit /\ NormInit /\ OptInit

NextLimiter ==
    \/ \E t \in Tasks : LimiterSubmit(t)
    \/ \E t \in Tasks : LimiterResolve(t)
    \/ \E t \in Tasks : LimiterReject(t)

SpecLimiter == InitLimiter /\ [][NextLimiter]_vars

InitHeap ==
    /\ \E k \in 0..MaxLimit : HeapInit(k)
    /\ LimiterInit(1) /\ RateInit /\ ShardInit({}, {}) /\ SimInit(<<>>, FALSE) /\ StatsInit /\ CoInit /\ JacInit /\ ThInit /\ UpdInit /\ BitInit /\ NormInit /\ OptInit

NextHeap ==
    \E item \in HeapItems : HeapPush(item)

SpecHeap == InitHeap /\ [][NextHeap]_vars

(***************************************************************************)
(* C3.  For a limiter created by createLimiter(N), N >= 1, the number of   *)
(* tasks that have been started and have not yet settled never exceeds N,  *)
(* after any sequence of submissions, completions and failures; the        *)
(* counter `running` is exactly that number.                               *)
(***************************************************************************)
StartedNotSettled == {t \in Tasks : taskState[t] = "running"}

C3_AtMostNRunning ==
    /\ Cardinality(StartedNotSettled) <= concurrency
    /\ running = Cardinality(StartedNotSettled)

\* the limiter is full, a task waits, and tasks have both resolved and failed
C3_Witness ==
    /\ Cardinality(StartedNotSettled) = concurrency
    /\ Len(queue) > 0
    /\ \E t \in Tasks : taskState[t] = "resolved"
    /\ \E t \in Tasks : taskState[t] = "rejected"

(***************************************************************************)
(* C6.  For any sequence of heapPushBounded calls with an integer limit    *)
(* K >= 0, the selector array holds at most K items.                       *)
(***************************************************************************)
C6_AtMostKHeld == Len(heap) <= limit

\* more items than K were pushed and the selector is full
C6_Witness == limit >= 1 /\ Len(pushed) > limit /\ Len(heap) = limit

(***************************************************************************)
(* C7.  After any sequence of heapPushBounded calls, in any order, the     *)
(* multiset of scores held equals the multiset of the min(K, n) largest    *)
(* scores among the n items pushed, and the array is a min-heap on the     *)
(* score (so the root is the smallest score retained).                     *)
(***************************************************************************)
ScoresOf(items) == [i \in DOMAIN items |-> items[i].jaccard]

\* how many of the m largest values of s equal v
TopCount(s, m, v) ==
    LET above == Cardinality({i \in DOMAIN s : s[i] > v})
        equal == CountIn(s, v)
    IN  Min2(equal, Max2(0, m - above))

IsMinHeap(h) ==
    \A i \in 1..(Len(h) - 1) : At(h, (i - 1) \div 2).jaccard <= At(h, i).jaccard

C7_HoldsKLargest ==
    /\ \A v \in HeapScores :
          CountIn(ScoresOf(heap), v) =
              TopCount(ScoresOf(pushed), Min2(limit, Len(pushed)), v)
    /\ IsMinHeap(heap)

\* a full selector has replaced its root: a pushed score is no longer held
C7_Witness ==
    /\ limit >= 2
    /\ Len(heap) = limit
    /\ \E i \in DOMAIN pushed :
          /\ CountIn(ScoresOf(heap), pushed[i].jaccard) = 0
          /\ \E j \in DOMAIN pushed : j > i /\ pushed[j].jaccard > pushed[i].jaccard

(***************************************************************************)
(* SpecRate: MaxCallers concurrent calls of fetchJsonWithCache.            *)
(***************************************************************************)
InitRate ==
    /\ LimiterInit(1) /\ HeapInit(0) /\ RateInit /\ ShardInit({}, {})
    /\ SimInit(<<>>, FALSE) /\ StatsInit /\ CoInit /\ JacInit /\ ThInit /\ UpdInit /\ BitInit /\ NormInit /\ OptInit

NextRate ==
    \/ \E c \in Callers, r \in Requests : FetchCall(c, r)
    \/ \E c \in Callers : RateLimitWake(c)
    \/ \E c \in Callers, resp \in Responses, j \in Jitters : FetchResponse(c, resp, j)
    \/ \E c \in Callers : BackoffWake(c)
    \/ Tick

SpecRate == InitRate /\ [][NextRate]_vars

(***************************************************************************)
(* C4.  For any domain and any interleaving of concurrent callers of       *)
(* fetchJsonWithCache, first attempts and retries alike, two successive    *)
(* request dispatches to that domain are at least REQUEST_DELAY_MS apart   *)
(* on the clock rateLimit reads.                                           *)
(***************************************************************************)
C4_DispatchesSpaced ==
    \A d \in Domains : \A i \in 1..(Len(dispatched[d]) - 1) :
        dispatched[d][i + 1] - dispatched[d][i] >= REQUEST_DELAY_MS
(***************************************************************************)
(* SpecShard: MaxLoaders callers of loadPrefixFileAsync and                *)
(* loadReverseDepsCacheAsync, MaxLoads calls in all, over any data         *)
(* directory; every read ends in any order with any outcome.               *)
(***************************************************************************)
InitShard ==
    /\ LimiterInit(1) /\ HeapInit(0) /\ RateInit /\ SimInit(<<>>, FALSE) /\ StatsInit /\ CoInit /\ JacInit /\ ThInit /\ UpdInit /\ BitInit /\ NormInit /\ OptInit
    /\ \E d \in SUBSET SplitFiles, l \in SUBSET LegacyFiles : ShardInit(d, l)

NextShard ==
    \/ \E c \in Loaders, p \in getAllPrefixChars : loadPrefixFileAsync(c, p)
    \/ \E c \in Loaders : loadReverseDepsCacheAsync(c)
    \/ \E p \in getAllPrefixChars, o \in ReadOutcomes : PrefixReadComplete(p, o)
    \/ \E c \in Loaders, f \in SplitFiles, o \in ReadOutcomes : DirReadComplete(c, f, o)
    \/ \E c \in Loaders, o \in ReadOutcomes : CsvReadComplete(c, o)
    \/ \E c \in Loaders, o \in ReadOutcomes : LegacyReadComplete(c, o)

SpecShard == InitShard /\ [][NextShard]_vars

(***************************************************************************)
(* C5: for every shard prefix, as long as the shard is not in the shard    *)
(* cache, at most one read of the shard's file has been started, whatever  *)
(* the interleaving of the callers of loadPrefixFileAsync and              *)
(* loadReverseDepsCacheAsync.                                              *)
(***************************************************************************)
C5_ShardReadOnce ==
    \A p \in getAllPrefixChars :
        prefixCacheState[p] = "absent" => readCount[p] <= 1

(***************************************************************************)
(* SpecSimilar: one call of computeSimilarOnDemand.                        *)
(***************************************************************************)
InitSimilar ==
    /\ \E k \in 1..MaxSimLimit : HeapInit(k)
    /\ LimiterInit(1)
    /\ RateInit
    /\ ShardInit({}, {})
    /\ \E q \in Queries, present \in BOOLEAN, maxLive \in LiveOptions :
           SimInitOptions(q, present, maxLive)
    /\ StatsInit /\ CoInit /\ JacInit /\ ThInit /\ UpdInit /\ BitInit /\ NormInit /\ OptInit

NextSimilar ==
    \/ Call
    \/ \E fetched \in FetchOutcomes : FwdMetaResponse(fetched)
    \/ \E candidate \in Range(loadPopularPackages), fetched \in FetchOutcomes :
           FwdCheckResponse(candidate, fetched)
    \/ FwdTimeout
    \/ \E depPkg \in Range(base), fetched \in FetchOutcomes : ScanResponse(depPkg, fetched)
    \/ \E timer \in {"fetch", "batch"} : ScanTimeout(timer)
    \/ \E readOutcome \in FileOutcomes : BitsetFileRead(readOutcome)
    \/ \E cand \in ev.pending, readOutcome \in FileOutcomes : CandBitsetRead(cand, readOutcome)
    \/ \E cand \in ev.fetching : CandLiveFetched(cand)
    \/ \E cand \in ev.pending : CandTimeout(cand)

SpecSimilar == InitSimilar /\ [][NextSimilar]_vars

(***************************************************************************)
(* C1.  For every non-empty query and every path through                   *)
(* computeSimilarOnDemand (primary scoring, relaxed rescan, forward-       *)
(* dependency fallback, name-based fallbacks), no returned item has a name *)
(* whose normalized form equals the normalized form of the query.          *)
(***************************************************************************)
C1_QueryNeverReturned ==
    (pc = "done" /\ pkg # <<>>) =>
        \A i \in DOMAIN results :
            normalizePackageName(results[i].name) # normalizePackageName(pkg)

\* a call for "a-b" has met the popular package "A_b", another spelling of
\* the query, among its candidates and has returned scored items
C1_Witness ==
    /\ pc = "done"
    /\ callOutcome = "returned"
    /\ pkg = nAB
    /\ nA_b \in ev.started
    /\ path = "primary"
    /\ Len(results) > 0

(***************************************************************************)
(* C2.  For every non-empty package name computeSimilarOnDemand completes  *)
(* by returning a list and never by throwing, whatever fails in the        *)
(* forward-dependency fetches, the bitset-index loading (id map, metadata, *)
(* shard) and the candidate evaluation.                                    *)
(***************************************************************************)
C2_AlwaysReturnsList ==
    (pc = "done" /\ pkg # <<>>) => callOutcome = "returned"

(***************************************************************************)
(* C8.  The ranked list that computeSimilarOnDemand returns does not       *)
(* depend on the order in which the concurrent candidate evaluations       *)
(* complete: with the same data and the same outcome of every read, the    *)
(* list is the one obtained when every evaluation completes in the order   *)
(* of the candidate array.                                                 *)
(***************************************************************************)
outcomeOf(cand) == IF cand \in DOMAIN evalOutcome THEN evalOutcome[cand] ELSE "ok"

completed(e, cand) == IF cand \in e.fetching THEN liveFetched(e, cand) ELSE e

RECURSIVE inOrderBatch(_, _)
inOrderBatch(e, cands) ==
    IF cands = <<>> THEN e
    ELSE inOrderBatch(
             completed(IF isIo(e, Head(cands))
                         THEN ioBody(e, Head(cands), outcomeOf(Head(cands)))
                         ELSE syncBody(e, Head(cands)),
                       Head(cands)),
             Tail(cands))

RECURSIVE inOrderBatches(_)
inOrderBatches(e) ==
    IF e.next >= Len(candArrayOf(e.sorted)) THEN e
    ELSE LET batch == SubSeq(candArrayOf(e.sorted), e.next + 1,
                             Min2(e.next + BATCH_SIZE, Len(candArrayOf(e.sorted))))
             e1 == inOrderBatch([e EXCEPT !.next = @ + BATCH_SIZE], batch)
         IN  IF checkEarlyExit(e1) THEN e1 ELSE inOrderBatches(e1)

inOrderResults ==
    LET e0 == [ev EXCEPT !.heap = <<>>, !.pushed = <<>>, !.checked = 0, !.live = 0,
                         !.issued = 0, !.next = 0]
        e1 == inOrderBatches(e0)
    IN  finishResults(e1.heap, e1.sorted).results

C8_OrderIndependent ==
    (/\ pc = "done"
     /\ callOutcome = "returned"
     /\ path \in {"primary", "relaxed", "nameBased", "empty"}
     /\ "candidate" \notin timedOut)
    => results = inOrderResults

(***************************************************************************)
(* C9.  A call with the empty string as package name is rejected with an   *)
(* InvalidInput outcome before any pipeline stage (index lookup, fetch,    *)
(* fallback) starts; it does not return a ranked list.                     *)
(***************************************************************************)
C9_EmptyNameRejected ==
    (pkg = <<>> /\ pc # "idle") => (pc = "done" /\ callOutcome = "InvalidInput")

(***************************************************************************)
(* C10.  The timeout of one candidate's evaluation excludes only that      *)
(* candidate: every other candidate of the same batch and of the later     *)
(* batches is still evaluated.                                             *)
(***************************************************************************)
C10_OthersStillEvaluated ==
    (pc = "done" /\ "candidate" \in timedOut) =>
        \A i \in DOMAIN candArrayOf(ev.sorted) : candArrayOf(ev.sorted)[i] \in ev.started

(***************************************************************************)
(* C11.  When the budget of the candidate collection expires, the fetches  *)
(* of the stage that are still in flight are cancelled: after the expiry   *)
(* none of them modifies the candidate set.                                *)
(***************************************************************************)
C11_NoChangeAfterExpiry ==
    [][("scan" \in timedOut) => (candidates' = candidates)]_vars

(***************************************************************************)
(* SpecRetry: one call of fetchJsonWithCache and one call of               *)
(* fetchDownloadStats, every attempt answered in any way.  With a single   *)
(* caller the delay of rateLimit has always elapsed, so rateLimit never    *)
(* sleeps.                                                                 *)
(***************************************************************************)
InitRetry ==
    /\ LimiterInit(1) /\ HeapInit(0) /\ RateInit /\ ShardInit({}, {})
    /\ SimInit(<<>>, FALSE) /\ StatsInit /\ CoInit /\ JacInit /\ ThInit /\ UpdInit /\ BitInit /\ NormInit /\ OptInit

NextRetry ==
    \/ \E r \in Requests : FetchCall(1, r)
    \/ \E resp \in Responses, j \in Jitters : FetchResponse(1, resp, j)
    \/ BackoffWake(1)
    \/ TimerDue
    \/ StatsCall
    \/ \E resp \in StatsResponses : StatsResponse(resp)
    \/ StatsBackoffWake

SpecRetry == InitRetry /\ [][NextRetry]_vars

\* the failures that the helpers retry on
TransientStats == {"http429or5xx", "retryableError"}

\* fetchJsonWithCache: the answer to the last attempt is not a success
\* (nothing is cached) and the call ends
LastAttemptFails ==
    /\ fetcher[1].pc = "inflight"
    /\ fetcher[1].attempt = MAX_RETRY_ATTEMPTS
    /\ fetcher'[1].pc # "inflight"
    /\ lru' = lru

\* fetchDownloadStats has ended after a transient failure of its last attempt
StatsExhausted ==
    /\ statsFetch.pc = "done"
    /\ statsFetch.attempt = STATS_MAX_RETRY_ATTEMPTS
    /\ statsFetch.last \in TransientStats

(***************************************************************************)
(* C12.  When every attempt fails with a transient failure up to the       *)
(* attempt cap, fetchJsonWithCache completes by raising the error to its   *)
(* caller and never with a normal value; fetchDownloadStats completes with *)
(* null, the value it documents for statistics that are unavailable.       *)
(***************************************************************************)
C12_ExhaustedFetchEnds ==
    /\ [][LastAttemptFails => fetcher'[1].pc = "threw"]_vars
    /\ [](StatsExhausted => statsFetch.result = "null")

\* both helpers have used up their attempts on transient failures
C12_Witness ==
    /\ fetcher[1].pc = "threw"
    /\ fetcher[1].attempt = MAX_RETRY_ATTEMPTS
    /\ StatsExhausted
    /\ statsFetch.result = "null"

\* C12 as stated: each of the two helpers raises the error after its last
\* attempt
C12_BothHelpersRaise ==
    /\ [][LastAttemptFails => fetcher'[1].pc = "threw"]_vars
    /\ [](StatsExhausted => statsFetch.result = "threw")


(***************************************************************************)
(* SpecRanked: one call of either ranking function, computeSimilarOnDemand *)
(* or computeCooccurrence, on the same data.                               *)
(***************************************************************************)
RankedQueries == Queries \cup {nQ, nW, nHG}

InitRanked ==
    /\ \E k \in 1..MaxSimLimit : HeapInit(k)
    /\ LimiterInit(1)
    /\ RateInit
    /\ ShardInit({}, {})
    /\ \E q \in RankedQueries, present \in BOOLEAN : SimInit(q, present)
    /\ StatsInit /\ CoInit /\ JacInit /\ ThInit /\ UpdInit /\ BitInit /\ NormInit /\ OptInit

NextRanked ==
    \/ NextSimilar
    \/ CoCall
    \/ \E depPkg \in Range(base), fetched \in FetchOutcomes : CoScanResponse(depPkg, fetched)
    \/ CoScanTimeout
    \/ \E fetched \in FetchOutcomes : CoMetaResponse(fetched)
    \/ \E pop \in Range(loadPopularPackages), fetched \in FetchOutcomes :
           CoCheckResponse(pop, fetched)
    \/ CoCheckTimeout

SpecRanked == InitRanked /\ [][NextRanked]_vars

\* C13: whichever function was called and whichever path produced the
\* list, a returned list has at most limit items (limit >= 1)
C13_AtMostLimitItems ==
    (pc = "done" /\ callOutcome = "returned") => Len(results) <= limit

\* a call returned exactly limit items although more names had qualified
C13_Witness ==
    /\ pc = "done" /\ callOutcome = "returned"
    /\ path = "coForward"
    /\ Len(cooccur) > limit
    /\ Len(results) = limit

\* C14: a returned list is sorted by non-increasing jaccard, the list of
\* the co-occurrence forward-dependency path with its direct dependencies
\* first included
C14_SortedByJaccard ==
    (pc = "done" /\ callOutcome = "returned") =>
        \A i \in 1..(Len(results) - 1) : results[i].jaccard >= results[i + 1].jaccard


\* C15: in the list the primary path returns, of two items with the same
\* jaccard the one with the larger sharedDependents comes first
C15_TiesBySharedCount ==
    (pc = "done" /\ callOutcome = "returned" /\ path = "primary") =>
        \A i, j \in DOMAIN results :
            (i < j /\ results[i].jaccard = results[j].jaccard) =>
                results[i].sharedDependents >= results[j].sharedDependents


\* C18: every item pushed into the selector during the scoring pass, by
\* the cached-set path, the bitset path or the live-fetch path, has
\* jaccard >= getJaccardThreshold(|B|) and
\* sharedDependents >= getSharedThreshold(|B|)
C18_PushedMeetBothThresholds ==
    \A i \in DOMAIN ev.pushed :
        /\ ev.pushed[i].jaccard >= getJaccardThreshold(Cardinality(Range(base)))
        /\ ev.pushed[i].sharedDependents >= getSharedThreshold(Cardinality(Range(base)))


\* C20: whatever the base set and the interleaving of the fetches of the
\* expansion, those still running after a timeout of the collection
\* included, the candidate list that the scoring pass sorts and evaluates
\* has at most MAX_CANDIDATES_TO_COLLECT members
C20_ScoredCandidatesCapped ==
    /\ Len(ev.sorted) <= MAX_CANDIDATES_TO_COLLECT
    /\ Len(candArrayOf(ev.sorted)) <= MAX_CANDIDATES_TO_COLLECT


\* the condition of the early termination on a count of checked
\* candidates and a selector content
EarlyExitCondition(checked, h) ==
    /\ checked >= limit * MIN_CHECKED_MULTIPLIER
    /\ Len(h) = limit
    /\ \A i \in DOMAIN h : h[i].jaccard >= MIN_SCORE_FOR_EARLY_EXIT

\* the scoring pass has ended with candidates it never started, and not by
\* a failure
StoppedEarly ==
    /\ ev.finished
    /\ ev.next < Len(candArrayOf(ev.sorted))
    /\ "candidate" \notin timedOut

\* C19: the scoring pass stops before all candidates are processed, other
\* than by a failure, only when at least limit * MIN_CHECKED_MULTIPLIER
\* candidates have been checked and the selector holds limit items whose
\* smallest score is at least MIN_SCORE_FOR_EARLY_EXIT; and a batch is never
\* started at a batch boundary where that condition holds
C19_EarlyExitOnlyWhenConfident ==
    /\ StoppedEarly => EarlyExitCondition(ev.checked, ev.heap)
    /\ \A i \in DOMAIN ev.batchStarts :
           ~EarlyExitCondition(ev.batchStarts[i].checked, ev.batchStarts[i].heap)

\* a call whose scoring pass left a batch unstarted after an earlier batch
\* had filled the selector
C19_Witness ==
    /\ pc = "done" /\ callOutcome = "returned"
    /\ StoppedEarly
    /\ Len(ev.batchStarts) >= 1
    /\ Len(ev.pushed) >= limit


(***************************************************************************)
(* SpecJaccard: jaccardSimilarity and canMeetThreshold applied to two      *)
(* sets, below and above the switch between the two algorithms.            *)
(***************************************************************************)
InitJaccard ==
    /\ LimiterInit(1) /\ HeapInit(0) /\ RateInit /\ ShardInit({}, {})
    /\ SimInit(<<>>, FALSE) /\ StatsInit /\ CoInit /\ ThInit /\ UpdInit /\ BitInit /\ NormInit /\ OptInit
    /\ \E fa, fb \in 0..MaxShift, sa, sb \in Strides, la, lb \in SetLengths :
           JacInputs(ascending(fa, sa, la), descending(fb, sb, lb))

NextJaccard ==
    \/ JaccardCall
    \/ \E t \in MinJaccards : CanMeetCall(t)

SpecJaccard == InitJaccard /\ [][NextJaccard]_vars

SharedExact == Cardinality(Range(setA) \cap Range(setB))
UnionExact  == Cardinality(Range(setA) \cup Range(setB))

\* C16: canMeetThreshold is a sound pre-filter: for sets C and B and a
\* threshold t > 0, when canMeetThreshold(|C|, |B|, t) is false the exact
\* Jaccard |C n B| / |C u B| (0 for two empty sets) is strictly below t
C16_PreFilterSound ==
    (jpc = "filtered" /\ ~canMeet) =>
        IF UnionExact > 0 THEN SharedExact * ScoreUnit < jThreshold * UnionExact
        ELSE 0 < jThreshold

\* the pre-filter rejected a pair of non-empty sets that do overlap
C16_Witness ==
    /\ jpc = "filtered" /\ ~canMeet
    /\ setA # <<>> /\ setB # <<>>
    /\ SharedExact > 0

\* C17: for sets of any size, below and above the 100-element switch,
\* jaccardSimilarity returns shared = |A n B|, unionSize = |A u B| and
\* score = shared / unionSize (0 when both are empty); so it is symmetric,
\* 1 for A = B non-empty, and 0 with shared 0 for disjoint sets or when a
\* set is empty
C17_JaccardExact ==
    (jpc # "input") =>
        /\ jResult.shared = SharedExact
        /\ jResult.unionSize = UnionExact
        /\ jResult.score = IF UnionExact > 0 THEN <<SharedExact, UnionExact>> ELSE <<0, 1>>
        /\ jSwapped = jResult
        /\ (Range(setA) = Range(setB) /\ setA # <<>>) => jResult.score[1] = jResult.score[2]
        /\ (Range(setA) \cap Range(setB) = {}) => (jResult.score[1] = 0 /\ jResult.shared = 0)

\* the two-pointer algorithm scored two overlapping, different sets of
\* which one was not inserted in sorted order
C17_Witness ==
    /\ jpc = "scored"
    /\ Len(setA) >= THRESHOLD /\ Len(setB) >= THRESHOLD
    /\ jResult.shared > 0
    /\ jResult.shared < jResult.unionSize



\* C21: during one call, whatever the order in which the concurrent
\* evaluations proceed, the number of live lookups of reverse dependents
\* issued for candidates never exceeds MAX_LIVE_CANDIDATES
C21_LiveFetchesCapped == ev.issued <= MAX_LIVE_CANDIDATES



\* the sampled dependents whose metadata was fetched and lists the name
listedBy(name) == {d \in fetchedDependents : name \in Range(metaDeps(d))}

\* C22: in computeCooccurrence with |B| > 0 every returned item has
\* sharedDependents = the number of successfully fetched sampled dependents
\* that list its name and jaccard = that number divided by the number S of
\* successfully fetched sampled dependents (S >= 1), rounded to six
\* decimals, so 0 < jaccard <= 1
C22_CountsOverFetched ==
    (pc = "done" /\ path \in {"coReverse", "coRelaxed"}) =>
        \A i \in DOMAIN results :
            /\ successfulFetches >= 1
            /\ results[i].sharedDependents = Cardinality(listedBy(results[i].name))
            /\ results[i].jaccard = toFixed6(Cardinality(listedBy(results[i].name)),
                                             successfulFetches)
            /\ 0 < results[i].jaccard /\ results[i].jaccard <= ScoreUnit



(***************************************************************************)
(* SpecThreshold: the thresholds of computeCooccurrenceFromReverseDeps for *)
(* two numbers of successful fetches.                                      *)
(***************************************************************************)
InitThreshold ==
    /\ LimiterInit(1) /\ HeapInit(0) /\ RateInit /\ ShardInit({}, {})
    /\ SimInit(<<>>, FALSE) /\ StatsInit /\ CoInit /\ JacInit /\ UpdInit /\ BitInit /\ NormInit /\ OptInit
    /\ \E sampled \in SampleSizes :
         \E size \in BaseSizesOf(sampled), fewer \in FetchCounts(sampled), step \in 1..MaxStep :
             /\ fewer + step <= sampled
             /\ ThInputs(size, sampled, fewer, fewer + step)

NextThreshold ==
    \/ ThresholdFewer
    \/ ThresholdMore

SpecThreshold == InitThreshold /\ [][NextThreshold]_vars

\* C23: in computeCooccurrence with |B| > 0, for a fixed base size and a
\* fixed number of sampled dependents, when the number of successfully
\* fetched dependents increases neither minShared nor minJaccard decreases;
\* stated for the calls in which at least one fetch has succeeded
C23_ThresholdsMonotone ==
    (thpc = "second" /\ thFewer >= 1) =>
        /\ thresholdMore.minShared >= thresholdFewer.minShared
        /\ thresholdMore.minJaccard >= thresholdFewer.minJaccard



\* the name denotes a direct dependency of the query
isDirectDep(name) ==
    normalizePackageName(name) \in {normalizePackageName(d) : d \in Range(pkgDeps)}

\* C24: in computeCooccurrence with |B| = 0 and D(query) non-empty, every
\* direct dependency of the query is in the result, popular or not, unless
\* the limit is used up by direct dependencies, and no entry that is not a
\* direct dependency stands ahead of one that is
C24_DirectDepsFirst ==
    (/\ pc = "done" /\ callOutcome = "returned"
     /\ path \in {"coForward", "coForwardRelaxed", "coNameFallback"}
     /\ Len(pkgDeps) > 0)
    => /\ \A i, j \in DOMAIN results :
              (i < j /\ isDirectDep(results[j].name)) => isDirectDep(results[i].name)
       /\ \A d \in Range(pkgDeps) :
              \/ \E i \in DOMAIN results : SameName(results[i].name, d)
              \/ /\ Len(results) = limit
                 /\ \A i \in DOMAIN results : isDirectDep(results[i].name)


(***************************************************************************)
(* C25: invocations running concurrently in one process do not influence   *)
(* each other's results.  An invocation reads the reverse-dependency cache *)
(* twice, for its base set (similar.ts 110) and for the candidates' sets   *)
(* (340); run alone, both reads return the data of its own load.  Checked  *)
(* for the loaders of SpecShard: every call of loadReverseDepsCacheAsync   *)
(* made by one invocation returns the same data, whatever the other        *)
(* invocation does.                                                        *)
(***************************************************************************)
C25_InvocationsIsolated ==
    \A c \in Loaders :
        \A i, j \in DOMAIN caches[c] : caches[c][i] = caches[c][j]

\* the only invocation that has called a loader: it runs alone
runsAlone(c) == \A d \in Loaders \ {c} : loader[d] = IdleLoader

\* run alone, an invocation gets the same data from every call
C25_AloneSameCache ==
    \A c \in Loaders : runsAlone(c) => \A i, j \in DOMAIN caches[c] : caches[c][i] = caches[c][j]

C25_AloneWitness ==
    \E c \in Loaders : runsAlone(c) /\ Len(caches[c]) >= 2 /\ caches[c][1] # {}


(***************************************************************************)
(* C26: when the query has no reverse dependents and its forward           *)
(* dependencies are empty or could not be fetched, computeSimilarOnDemand  *)
(* returns, without throwing, exactly the list of the name-token fallback: *)
(* the names found by the scan of the popular packages, cut to limit, each *)
(* with the score NAME_BASED_FALLBACK_SCORE and sharedDependents 0.        *)
(***************************************************************************)
fallbackNames == sliceTo(similarNamesScan(1, <<>>), limit)

C26_NameFallbackWhenNothingKnown ==
    (pc = "done" /\ Len(base) = 0 /\ Len(pkgDeps) = 0) =>
        /\ callOutcome = "returned"
        /\ results = [i \in DOMAIN fallbackNames |->
                         [name |-> fallbackNames[i],
                          jaccard |-> NAME_BASED_FALLBACK_SCORE,
                          sharedDependents |-> 0]]

\* a call without reverse dependents and without dependencies that returned
\* a non-empty fallback list
C26_Witness ==
    /\ pc = "done" /\ Len(pkg) >= 1 /\ Len(base) = 0 /\ Len(pkgDeps) = 0
    /\ path = "nameFallback"
    /\ Len(results) >= 1


(***************************************************************************)
(* SpecUpdate: MaxUpdaters processes run the weekly update on one data     *)
(* directory, which may hold a lock file and production files of an        *)
(* earlier run.                                                            *)
(***************************************************************************)
InitUpdate ==
    /\ LimiterInit(1) /\ HeapInit(0) /\ RateInit /\ ShardInit({}, {})
    /\ SimInit(<<>>, FALSE) /\ StatsInit /\ CoInit /\ JacInit /\ ThInit /\ BitInit /\ NormInit /\ OptInit
    /\ \E lock \in {NoLock} \cup LeftLocks, before \in SUBSET SwapFiles :
         UpdInputs(lock, before)

NextUpdate ==
    \/ \E p \in Updaters : LockExists(p)
    \/ \E p \in Updaters : LockRead(p)
    \/ \E p \in Updaters : LockUnlinkStale(p)
    \/ \E p \in Updaters : LockUnlinkCorrupt(p)
    \/ \E p \in Updaters, o \in FileOutcomes : LockOpen(p, o)
    \/ \E p \in Updaters : LockWrite(p)
    \/ \E p \in Updaters, o \in FileOutcomes : UpdateSteps(p, o)
    \/ \E p \in Updaters : SwapTempExists(p)
    \/ \E p \in Updaters : SwapProdExists(p)
    \/ \E p \in Updaters : SwapBackupExists(p)
    \/ \E p \in Updaters : SwapUnlinkBackup(p)
    \/ \E p \in Updaters : SwapMoveToBackup(p)
    \/ \E p \in Updaters : SwapRename(p)
    \/ \E p \in Updaters, removed \in SUBSET SwapFiles : SwapCleanup(p, removed)
    \/ \E p \in Updaters : ReleaseExists(p)
    \/ \E p \in Updaters : ReleaseUnlink(p)
    \/ UpdTickClock

SpecUpdate == InitUpdate /\ [][NextUpdate]_vars

(***************************************************************************)
(* C27: the lock file gives mutual exclusion.  Two updaters are in the     *)
(* update steps at the same time only if the lock of the one was stale     *)
(* for the other, that is if their locks were written more than            *)
(* LOCK_TIMEOUT_MS apart.                                                  *)
(***************************************************************************)
C27_LockMutualExclusion ==
    \A p, q \in Updaters :
        (p # q /\ InUpdate(p) /\ InUpdate(q) /\ updater[p].stamp <= updater[q].stamp) =>
            updater[q].stamp - updater[p].stamp > LOCK_TIMEOUT_MS


(***************************************************************************)
(* C28: during step4_AtomicSwap every production file that existed before  *)
(* the update is, at every instant, present with its complete old or its   *)
(* complete new content.                                                   *)
(***************************************************************************)
C28_ProdFilesNeverMissing ==
    \A f \in prodBefore : prodFiles[f] \in {"old", "new"}


(***************************************************************************)
(* C29: the tasks of a limiter that had to wait are started in the order   *)
(* in which they were submitted: the waiting tasks started so far are, in  *)
(* the order of their start, the first of the tasks queued so far, so a    *)
(* task queued before another one is never started after it.               *)
(***************************************************************************)
startedFromQueue == SelectSeq(startOrder, LAMBDA t : t \in Range(queuedOrder))

C29_QueuedStartInOrder ==
    /\ Len(startedFromQueue) <= Len(queuedOrder)
    /\ startedFromQueue = SubSeq(queuedOrder, 1, Len(startedFromQueue))

\* three tasks were queued in an order other than that of their names, and
\* two of them have been started
C29_Witness ==
    /\ Len(queuedOrder) >= 3
    /\ Len(startedFromQueue) >= 2
    /\ queuedOrder[1] > queuedOrder[2]


(***************************************************************************)
(* C30: in computeSimilarOnDemand with a non-empty base set the fallback   *)
(* passes run only when the primary pass found nothing, and in a fixed     *)
(* order.  A non-empty selector is returned as it is, best score first;    *)
(* with an empty selector the result is the relaxed rescan of the cached   *)
(* candidates when that finds something; the name-token list is returned   *)
(* only when the rescan is empty too and 0 < |B| < BASE_SIZE_SMALL;        *)
(* otherwise the result is empty.                                          *)
(***************************************************************************)
relaxedRescan ==
    sliceTo(sortByJaccardDesc(relaxedItems(
        sliceTo(ev.sorted, Min2(MAX_FALLBACK_CANDIDATES, Len(ev.sorted))))), limit)

smallBase == Cardinality(Range(base)) > 0 /\ Cardinality(Range(base)) < BASE_SIZE_SMALL

C30_FallbackOrder ==
    (pc = "done" /\ callOutcome = "returned" /\ Len(base) > 0) =>
        IF Len(ev.heap) > 0 THEN results = sortByJaccardDesc(ev.heap)
        ELSE IF Len(relaxedRescan) > 0 THEN results = relaxedRescan
        ELSE IF smallBase THEN results = sliceTo(nameBasedScan(1, <<>>), limit)
        ELSE results = <<>>

\* the three passes, each reached by a call with a non-empty base set
C30_WitnessPrimary ==
    pc = "done" /\ Len(base) > 0 /\ Len(ev.heap) > 0 /\ Len(results) > 0
C30_WitnessRelaxed ==
    pc = "done" /\ Len(base) > 0 /\ Len(ev.heap) = 0 /\ path = "relaxed"
C30_WitnessNameBased ==
    pc = "done" /\ Len(base) > 0 /\ Len(ev.heap) = 0 /\ Len(relaxedRescan) = 0
    /\ path = "nameBased" /\ Len(results) > 0


(***************************************************************************)
(* SpecBitset: jaccardBitset and intersectCount on every pair of strictly  *)
(* increasing arrays of ids of 0..MaxBitsetId.                             *)
(***************************************************************************)
InitBitset ==
    /\ LimiterInit(1) /\ HeapInit(0) /\ RateInit /\ ShardInit({}, {})
    /\ SimInit(<<>>, FALSE) /\ StatsInit /\ CoInit /\ JacInit /\ ThInit /\ UpdInit /\ NormInit /\ OptInit
    /\ \E A, B \in SUBSET (0..MaxBitsetId) : BitInputs(sortedIds(A), sortedIds(B))

NextBitset ==
    \/ BitsetCall
    \/ IntersectCall

SpecBitset == InitBitset /\ [][NextBitset]_vars

(***************************************************************************)
(* C31: for strictly increasing arrays a and b, jaccardBitset(a, b) is     *)
(* |a n b| / |a u b| and intersectCount(a, b) is |a n b|; both are 0 when  *)
(* one of the arrays is empty.                                             *)
(***************************************************************************)
C31_BitsetJaccardExact ==
    /\ bpc \in {"scored", "counted"} =>
         IF Len(bitA) = 0 \/ Len(bitB) = 0
           THEN bitsetScore.inter = 0
           ELSE /\ bitsetScore.inter = Cardinality(Range(bitA) \cap Range(bitB))
                /\ bitsetScore.unionSize = Cardinality(Range(bitA) \cup Range(bitB))
    /\ bpc = "counted" => bitsetCount = Cardinality(Range(bitA) \cap Range(bitB))

\* both calls were made on arrays that share some ids and differ in others
C31_Witness ==
    /\ bpc = "counted"
    /\ bitsetCount >= 2
    /\ bitsetScore.unionSize > bitsetScore.inter + 1
    /\ Len(bitA) # Len(bitB)


(***************************************************************************)
(* SpecNormalize: normalizePackageName on every name of at most MaxNameLen *)
(* characters of NameChars.                                                *)
(***************************************************************************)
InitNormalize ==
    /\ LimiterInit(1) /\ HeapInit(0) /\ RateInit /\ ShardInit({}, {})
    /\ SimInit(<<>>, FALSE) /\ StatsInit /\ CoInit /\ JacInit /\ ThInit /\ UpdInit /\ BitInit /\ OptInit
    /\ \E name \in Names : NormInputs(name)

NextNormalize ==
    \/ NormalizeCall
    \/ NormalizeAgain

SpecNormalize == InitNormalize /\ [][NextNormalize]_vars

(***************************************************************************)
(* C32: normalizePackageName is idempotent, normalize(normalize(s)) =      *)
(* normalize(s), and its result holds no uppercase letter, no "_" and no   *)
(* ".".                                                                    *)
(***************************************************************************)
C32_NormalizeIdempotent ==
    /\ npc \in {"once", "twice"} =>
         \A i \in DOMAIN normOnce :
             normOnce[i] \notin DOMAIN UpperToLower \cup {"_", "."}
    /\ npc = "twice" => normTwice = normOnce

\* a name with an uppercase letter and a separator other than "-" was
\* normalized twice
C32_Witness ==
    /\ npc = "twice"
    /\ \E i, j \in DOMAIN rawName :
          rawName[i] \in DOMAIN UpperToLower /\ rawName[j] \in {"_", "."}


(***************************************************************************)
(* C33: once a shard's data is stored in prefixCacheState, no later step   *)
(* replaces the entry, and every later loadPrefixFileAsync of the shard    *)
(* returns the stored data.                                                *)
(***************************************************************************)
C33_ShardEntryKept ==
    [][\A p \in getAllPrefixChars :
          prefixCacheState[p] # "absent" =>
              /\ prefixCacheState'[p] = prefixCacheState[p]
              /\ \A c \in Loaders :
                    loadPrefixFileAsync(c, p) =>
                        loader'[c] = DoneLoader(PrefixData(prefixCacheState, p))]_vars

\* a shard was read once and loaded three times, so at least once after
\* its data was stored
C33_Witness ==
    \E p \in getAllPrefixChars :
        /\ prefixCacheState[p] = "data"
        /\ readCount[p] = 1
        /\ loads >= 3
        /\ \A c \in Loaders : loader[c] = DoneLoader({p}) /\ caches[c] = <<>>
        /\ \A q \in getAllPrefixChars \ {p} :
              prefixCacheState[q] = "absent" /\ prefixLoadingState[q] = "absent"


(***************************************************************************)
(* C34.  A response with an HTTP status below 500 other than 429 makes     *)
(* fetchJsonWithCache fail at once, without another request, for every     *)
(* URL.                                                                    *)
(***************************************************************************)
C34_ClientErrorNotRetried ==
    [][\A j \in Jitters :
          FetchResponse(1, "http4xx", j) => fetcher'[1].pc = "threw"]_vars


(***************************************************************************)
(* SpecLimiterFair: SpecLimiter under the condition that every started     *)
(* task settles: a task that is running does not run for ever.             *)
(***************************************************************************)
SpecLimiterFair ==
    /\ InitLimiter
    /\ [][NextLimiter]_vars
    /\ \A t \in Tasks : WF_vars(LimiterResolve(t) \/ LimiterReject(t))

Settled == {"resolved", "rejected"}

(***************************************************************************)
(* C35.  When every started task settles, every submitted task is          *)
(* eventually started and settled and running returns to 0; a rejected     *)
(* task releases its slot exactly as a resolved one does; and whenever     *)
(* the queue is not empty exactly N tasks are running.                     *)
(***************************************************************************)
\* no submitted task is waiting or running.  A settled task stays settled,
\* so a task that is waiting or running now has been started and has settled
\* by the next state in which NothingPending holds.
NothingPending == \A t \in Tasks : taskState[t] \in Settled \cup {"new"}

C35_LimiterDrains ==
    /\ []<>(NothingPending /\ running = 0)
    /\ [][\A t \in Tasks :
             LimiterReject(t) =>
                 /\ running' = IF Len(queue) > 0 THEN running ELSE running - 1
                 /\ queue' = IF Len(queue) > 0 THEN Tail(queue) ELSE queue]_vars
    /\ [](Len(queue) > 0 => running = concurrency)

\* every task was submitted and has settled, some after waiting in the
\* queue behind a task that was rejected, and no task is running
C35_Witness ==
    /\ \A t \in Tasks : taskState[t] \in Settled
    /\ running = 0
    /\ Len(queuedOrder) > 0
    /\ \E t \in Tasks : taskState[t] = "rejected" /\ CountIn(queuedOrder, t) = 0


(***************************************************************************)
(* C36.  Once the dependents scan has been abandoned, no fetch of the      *)
(* scan that was still waiting in the limiter's queue is started.          *)
(***************************************************************************)
C36_NoStartAfterAbandon ==
    [][("scan" \in timedOut) => (inFlight' \subseteq inFlight)]_vars


(***************************************************************************)
(* C37.  No list returned by computeSimilarOnDemand holds two items whose  *)
(* names have the same normalized form.                                    *)
(***************************************************************************)
C37_NoDuplicateNames ==
    (pc = "done" /\ callOutcome = "returned") =>
        \A i, j \in DOMAIN results :
            i # j => ~SameName(results[i].name, results[j].name)


(***************************************************************************)
(* SpecPeer: one call computeSimilarOnDemand(pkg, limit,                   *)
(* { restrictToPeerGroup: true }), for every query.                        *)
(***************************************************************************)
InitPeer ==
    /\ \E k \in 1..MaxSimLimit : HeapInit(k)
    /\ LimiterInit(1)
    /\ RateInit
    /\ ShardInit({}, {})
    /\ \E q \in Queries, present \in BOOLEAN, maxLive \in LiveOptions :
           SimInitOptions(q, present, maxLive)
    /\ restrictToPeerGroup = TRUE
    /\ StatsInit /\ CoInit /\ JacInit /\ ThInit /\ UpdInit /\ BitInit /\ NormInit

SpecPeer == InitPeer /\ [][NextSimilar]_vars

(***************************************************************************)
(* C38.  With restrictToPeerGroup = true, a query of the peer group and a  *)
(* non-empty base set, every returned item is a member of the peer group.  *)
(***************************************************************************)
C38_OnlyPeersReturned ==
    (/\ pc = "done" /\ callOutcome = "returned"
     /\ restrictToPeerGroup /\ isUiFramework(pkg) /\ Len(base) > 0) =>
        \A i \in DOMAIN results : isUiFramework(results[i].name)


(***************************************************************************)
(* C39.  No list returned by computeCooccurrence for a non-empty query     *)
(* holds an item whose normalized name is the normalized query, on the     *)
(* reverse-dependents path and on the forward-dependency path.             *)
(***************************************************************************)
C39_CooccurrenceExcludesQuery ==
    (/\ pc = "done" /\ callOutcome = "returned" /\ Len(pkg) > 0
     /\ path \in {"coReverse", "coRelaxed", "coForward", "coForwardRelaxed", "coNameFallback"}) =>
        \A i \in DOMAIN results : ~SameName(results[i].name, pkg)


(***************************************************************************)
(* C40.  When a weekly update that acquired the lock has ended, with all   *)
(* steps complete or with a step that threw, the lock file it wrote is no  *)
(* longer there.                                                           *)
(***************************************************************************)
C40_LockRemovedAtExit ==
    \A p \in Updaters :
        updater[p].pc \in {"exited", "failed"} =>
            ~(/\ lockFile.present
              /\ lockFile.content = <<[timestamp |-> updater[p].stamp, pid |-> p]>>)

=============================================================================
